---- MODULE Spec2Model ----
(***************************************************************************)
(* Highcharts AST: the sanitizing markup parser and DOM materializer.      *)
(*                                                                         *)
(* Strings whose content the code inspects (attribute values, text) are    *)
(* sequences of one-character strings; tag names and attribute keys, which *)
(* the code only compares for equality, are TLA+ strings.  An absent or    *)
(* empty string (both falsy in the code) is the empty sequence or "".      *)
(***************************************************************************)
EXTENDS Integers, Sequences, FiniteSets, Bags, TLC

VARIABLES
    allowedTags,        \* AST.allowedTags
    allowedAttributes,  \* AST.allowedAttributes
    allowedReferences,  \* AST.allowedReferences
    attributes,         \* the mapping object handed to filterUserAttributes
    markup,             \* the markup string handed to the constructor / setElementHTML
    nodes,              \* this.nodes of the AST instance
    constructed,        \* whether an AST instance exists
    el,                 \* the parent element handed to addToDOM / setElementHTML
    ret,                \* what the last addToDOM returned (<<>> is undefined)
    messages,           \* the diagnostics the last call emitted through error()
    raised,             \* whether the last call threw
    adds,               \* number of addToDOM calls made so far
    returned,           \* which object the last filterUserAttributes returned
    hasValidDOMParser,  \* whether DOMParser parses text/html (probed once at load)
    container,          \* the temporary div of the last parseMarkup call:
                        \* "none", "held" or "discarded"
    heap,               \* the host nodes of a running addToDOM call: heap[1] is
                        \* the parent, the others were created by the call;
                        \* <<>> while no call is running
    pending,            \* the host operations the running call has still to do
    produced,           \* what each addToDOM call on the instance created,
                        \* since the allow-lists last changed
    chart,              \* a chart and its series, as getColumnMetrics reads
                        \* and writes them (<<>> while there is none)
    tracker,            \* a series, its tracker groups and its points, as
                        \* drawTracker reads and writes them
    pie,                \* a pie series: its options, its points and what
                        \* updateTotals and translate computed
    call                \* the last operation and the state it started from

vars == <<allowedTags, allowedAttributes, allowedReferences, attributes, markup,
          nodes, constructed, el, ret, messages, raised, adds, returned,
          hasValidDOMParser, container, heap, pending, produced, chart, tracker,
          pie, call>>

---------------------------------------------------------------------------
(* Values *)

Str(s) == [t |-> "string", s |-> s, n |-> 0]
Num(n) == [t |-> "number", s |-> <<>>, n |-> n]

isString(val) == val.t = "string"

EmptyMap == [k \in {} |-> Str(<<>>)]

HttpsExample ==
    <<"h","t","t","p","s",":","/","/","e","x","a","m","p","l","e",".","c","o","m">>
JavascriptAlert ==
    <<"j","a","v","a","s","c","r","i","p","t",":","a","l","e","r","t","(","1",")">>
TelNumber == <<"t","e","l",":","1">>

\* The attribute values the inputs are drawn from.
Values == {Str(HttpsExample), Str(JavascriptAlert), Str(TelNumber), Num(5)}

\* The attribute keys the inputs are drawn from: an allowed plain key, a plain
\* key that is not allowed until pushed, an allowed reference key and a
\* reference key that is not in the default allow-list.
Keys == {"id", "data-value", "href", "background"}

---------------------------------------------------------------------------
(* Static properties *)

DefaultAllowedAttributes ==
    {"aria-controls", "aria-describedby", "aria-expanded", "aria-haspopup",
     "aria-hidden", "aria-label", "aria-labelledby", "aria-live",
     "aria-pressed", "aria-readonly", "aria-roledescription", "aria-selected",
     "class", "clip-path", "color", "colspan", "cx", "cy", "d", "dx", "dy",
     "disabled", "fill", "height", "href", "id", "in", "markerHeight",
     "markerWidth", "offset", "opacity", "orient", "padding", "paddingLeft",
     "paddingRight", "patternUnits", "r", "refX", "refY", "role", "scope",
     "slope", "src", "startOffset", "stdDeviation", "stroke",
     "stroke-linecap", "stroke-width", "style", "tableValues", "result",
     "rowspan", "summary", "target", "tabindex", "text-align", "textAnchor",
     "textLength", "type", "valign", "width", "x", "x1", "x2", "y", "y1",
     "y2", "zIndex"}

DefaultAllowedReferences ==
    {<<"h","t","t","p","s",":","/","/">>,
     <<"h","t","t","p",":","/","/">>,
     <<"m","a","i","l","t","o",":">>,
     <<"/">>,
     <<".",".","/">>,
     <<".","/">>,
     <<"#">>}

DefaultAllowedTags ==
    {"a", "b", "br", "button", "caption", "circle", "clipPath", "code", "dd",
     "defs", "div", "dl", "dt", "em", "feComponentTransfer", "feFuncA",
     "feFuncB", "feFuncG", "feFuncR", "feGaussianBlur", "feOffset", "feMerge",
     "feMergeNode", "filter", "h1", "h2", "h3", "h4", "h5", "h6", "hr", "i",
     "img", "li", "linearGradient", "marker", "ol", "p", "path", "pattern",
     "pre", "rect", "small", "span", "stop", "strong", "style", "sub", "sup",
     "svg", "table", "text", "thead", "tbody", "tspan", "td", "th", "tr", "u",
     "ul", "#text"}

\* What the embedding application pushes onto the allow-lists (the examples
\* of the doc comments).
ExtraAttributes == {"data-value"}
ExtraReferences == {<<"t","e","l",":">>}
ExtraTags == {"blink"}

ReferenceAttributes == {"background", "dynsrc", "href", "lowsrc", "src"}

---------------------------------------------------------------------------
(* AST.filterUserAttributes *)

\* val.indexOf(ref) === 0
StartsWith(s, ref) == Len(ref) <= Len(s) /\ SubSeq(s, 1, Len(ref)) = ref

\* Calling val.indexOf on a value that is not a string throws a TypeError.
IndexOfThrows(val) == val.t # "string"

\* A plausible bug: the isString guard left out.
CheckReferenceUnguarded(val) ==
    [valid  |-> val.t = "string"
                /\ \E ref \in allowedReferences : StartsWith(val.s, ref),
     throws |-> allowedReferences # {} /\ IndexOfThrows(val)]

\* A plausible bug: the prefixes are taken from a copy made at load time.
CheckReferenceAtLoad(val) ==
    [valid  |-> isString(val)
                /\ \E ref \in DefaultAllowedReferences : StartsWith(val.s, ref),
     throws |-> FALSE]

\* isString(val) && AST.allowedReferences.some(ref => val.indexOf(ref) === 0)
CheckReference(val) ==
    [valid  |-> isString(val)
                /\ \E ref \in allowedReferences : StartsWith(val.s, ref),
     throws |-> isString(val) /\ allowedReferences # {} /\ IndexOfThrows(val)]

\* A plausible bug: the reference check left out.
AttributeValidNoReferenceCheck(key, val) == key \in allowedAttributes

\* The body of the objectEach callback up to `if (!valid)`: the second
\* assignment to `valid` overwrites the first.
AttributeValid(key, val) ==
    LET valid1 == key \in allowedAttributes
    IN  IF key \in ReferenceAttributes
        THEN CheckReference(val).valid
        ELSE valid1

\* error(`Highcharts warning: Invalid attribute '${key}' in config`)
InvalidAttributeMessage(key) == [kind |-> "attribute", name |-> key]

\* error(`Highcharts warning: Invalid tagName '${tagName}' in config`)
InvalidTagMessage(tagName) == [kind |-> "tagName", name |-> tagName]

\* error(message), called without `stop`: a warning, never an exception.
error(message) == [diagnostic |-> message, throws |-> FALSE]

\* A plausible bug: a filtered copy is returned, the argument is left as it was.
filterUserAttributesCopy(attrs) ==
    LET invalid == {key \in DOMAIN attrs : ~AttributeValid(key, attrs[key])}
    IN  [attributes |-> attrs,
         returns    |-> "copy",
         messages   |-> SetToBag({error(InvalidAttributeMessage(key)).diagnostic :
                                     key \in invalid}),
         throws     |-> FALSE]

\* A plausible bug: deleting a key makes the iteration stop, so one call
\* removes one invalid key only.
filterUserAttributesOneAtATime(attrs) ==
    LET invalid == {key \in DOMAIN attrs : ~AttributeValid(key, attrs[key])}
        removed == IF invalid = {} THEN {} ELSE {CHOOSE key \in invalid : TRUE}
    IN  [attributes |-> [key \in (DOMAIN attrs) \ removed |-> attrs[key]],
         returns    |-> "argument",
         messages   |-> SetToBag({error(InvalidAttributeMessage(key)).diagnostic :
                                     key \in removed}),
         throws     |-> FALSE]

\* A plausible bug: one invalid attribute empties the whole mapping.
filterUserAttributesAllOrNothing(attrs) ==
    LET invalid == {key \in DOMAIN attrs : ~AttributeValid(key, attrs[key])}
    IN  [attributes |-> IF invalid = {} THEN attrs ELSE EmptyMap,
         returns    |-> "argument",
         messages   |-> SetToBag({error(InvalidAttributeMessage(key)).diagnostic :
                                     key \in invalid}),
         throws     |-> FALSE]

\* objectEach(attributes, ...): each key is decided on its own, an invalid
\* one is deleted from the object and reported; the object is returned.
\* `attributes` is the argument object as the call leaves it, `returns`
\* tells which object the return statement hands back.
filterUserAttributes(attrs) ==
    LET invalid == {key \in DOMAIN attrs : ~AttributeValid(key, attrs[key])}
    IN  [attributes |-> [key \in (DOMAIN attrs) \ invalid |-> attrs[key]],
         returns    |-> "argument",
         messages   |-> SetToBag({error(InvalidAttributeMessage(key)).diagnostic :
                                     key \in invalid}),
         throws     |-> \/ \E key \in (DOMAIN attrs) \cap ReferenceAttributes :
                               CheckReference(attrs[key]).throws
                        \/ \E key \in invalid :
                               error(InvalidAttributeMessage(key)).throws]

---------------------------------------------------------------------------
(* The host tree: elements and text nodes *)

HTML_NS == "http://www.w3.org/1999/xhtml"
SVG_NS == "http://www.w3.org/2000/svg"
NoNS == ""      \* namespaceURI null

\* H.doc.createTextNode(data)
createTextNode(data) ==
    [nodeName |-> "#text", namespaceURI |-> NoNS, attributes |-> EmptyMap,
     data |-> data, childNodes |-> <<>>]

\* H.doc.createElementNS(NS, tagName)
createElementNS(NS, tagName) ==
    [nodeName |-> tagName, namespaceURI |-> NS, attributes |-> EmptyMap,
     data |-> <<>>, childNodes |-> <<>>]

Digit == <<"0", "1", "2", "3", "4", "5", "6", "7", "8", "9">>

\* setAttribute stores the string form of the value (one-digit numbers here).
ToAttributeString(val) == IF isString(val) THEN val.s ELSE <<Digit[val.n + 1]>>

\* attr(element, attributes): setAttribute(key, val) for every key.
attr(element, attrs) ==
    [element EXCEPT !.attributes =
        [key \in DOMAIN attrs |-> ToAttributeString(attrs[key])]]

\* parent.appendChild(node) for each of `added`, in order.
appendChildren(parent, added) ==
    [parent EXCEPT !.childNodes = parent.childNodes \o added]

---------------------------------------------------------------------------
(* AST nodes *)

\* An AST.Node: tagName ("" when absent), textContent (<<>> when absent or
\* empty), attributes (hasAttributes tells whether the key is present), the
\* other own keys of the object (flat, the legacy attributes) and children
\* (<<>> when absent or empty).  hasTextContent tells an empty string that
\* the object carries from no textContent at all.
Node(tagName, textContent, hasAttributes, attrs, flat, children) ==
    [tagName |-> tagName, textContent |-> textContent,
     hasTextContent |-> textContent # <<>>,
     hasAttributes |-> hasAttributes, attributes |-> attrs,
     flat |-> flat, children |-> children]

---------------------------------------------------------------------------
(* AST.addToDOM *)

\* A plausible bug: every tag passes.
TagAllowedAlways(tagName) == TRUE

\* A plausible bug: the list is read as it was when the class was loaded.
TagAllowedAtLoad(tagName) == tagName \in DefaultAllowedTags

\* AST.allowedTags.indexOf(tagName) !== -1
TagAllowed(tagName) == tagName \in allowedTags

\* tagName === 'svg' ? SVG_NS : (subParent.namespaceURI || SVG_NS)
\* A plausible bug: 'svg' treated like any other tag.
ElementNSFromParent(tagName, parentNS) ==
    IF parentNS # NoNS THEN parentNS ELSE SVG_NS

ElementNS(tagName, parentNS) ==
    IF tagName = "svg" THEN SVG_NS
    ELSE IF parentNS # NoNS THEN parentNS ELSE SVG_NS

\* A plausible bug: a flat key does not replace the same key of `attributes`.
MergeFlatAttributesWin(attrs, flat) ==
    [key \in (DOMAIN attrs) \cup (DOMAIN flat) |->
        IF key \in DOMAIN attrs THEN attrs[key] ELSE flat[key]]

\* The objectEach over the item: every own key other than tagName,
\* attributes, children and textContent is assigned into `attributes`.
MergeFlat(attrs, flat) ==
    [key \in (DOMAIN attrs) \cup (DOMAIN flat) |->
        IF key \in DOMAIN flat THEN flat[key] ELSE attrs[key]]

\* How many host nodes a sequence of trees holds.
RECURSIVE CountCreated(_)
CountCreated(domNodes) ==
    IF domNodes = <<>> THEN 0
    ELSE 1 + CountCreated(Head(domNodes).childNodes) + CountCreated(Tail(domNodes))

\* A plausible bug: the nodes of the first call are cached and handed out again.
NodeIdentitiesCached(k, n) == {<<1, i>> : i \in 1..n}

\* Every element and text node comes out of createElementNS / createTextNode
\* within the call, nothing is kept from call to call: the i-th node created
\* by the k-th addToDOM call is an object of its own.
NodeIdentities(k, n) == {<<k, i>> : i \in 1..n}

\* ret = node, for every item
LastReturn(node, previous) == node

RECURSIVE recurse(_, _)

\* A plausible bug: the text is appended after the children.
ElementChildrenTextLast(textNode, appended) == appended \o textNode

\* What the element holds once the item is done: node.appendChild(textNode)
\* comes before recurse(item.children, node).
ElementChildren(textNode, appended) == textNode \o appended

\* The allowed-tag branch: create the element, merge and filter the
\* attributes, apply them, append the text, recurse into the children.
\* item.attributes is filtered in place when the item has one; the
\* flat keys were assigned into that same object before.
recurseElement(item, parentNS) ==
    LET NS == ElementNS(item.tagName, parentNS)
        element == createElementNS(NS, item.tagName)
        merged == MergeFlat(IF item.hasAttributes THEN item.attributes
                            ELSE EmptyMap, item.flat)
        filtered == filterUserAttributes(merged)
        textNode == IF item.textContent # <<>>
                    THEN <<createTextNode(item.textContent)>> ELSE <<>>
        sub == recurse(item.children, NS)
    IN  [node |-> <<appendChildren(attr(element, filtered.attributes),
                                   ElementChildren(textNode, sub.appended))>>,
         item |-> [item EXCEPT
                     !.attributes = IF item.hasAttributes
                                    THEN filtered.attributes ELSE @,
                     !.children = sub.subtree],
         messages |-> filtered.messages (+) sub.messages,
         throws |-> filtered.throws \/ sub.throws]

\* The body of the forEach callback for one item.
recurseItem(item, parentNS) ==
    IF item.tagName # ""
    THEN IF item.tagName = "#text"
         THEN [node |-> IF item.textContent # <<>>
                        THEN <<createTextNode(item.textContent)>> ELSE <<>>,
               item |-> item, messages |-> EmptyBag, throws |-> FALSE]
         ELSE IF TagAllowed(item.tagName)
         THEN recurseElement(item, parentNS)
         ELSE [node |-> <<>>, item |-> item,
               messages |-> SetToBag({error(InvalidTagMessage(item.tagName)).diagnostic}),
               throws |-> error(InvalidTagMessage(item.tagName)).throws]
    ELSE [node |-> <<>>, item |-> item, messages |-> EmptyBag,
          throws |-> FALSE]

\* recurse(subtree, subParent): what is appended to subParent, the subtree
\* as the call leaves it, the returned node, the diagnostics.
recurse(subtree, parentNS) ==
    IF subtree = <<>>
    THEN [appended |-> <<>>, subtree |-> <<>>, ret |-> <<>>,
          messages |-> EmptyBag, throws |-> FALSE]
    ELSE LET n == Len(subtree)
             front == recurse(SubSeq(subtree, 1, n - 1), parentNS)
             last == recurseItem(subtree[n], parentNS)
         IN  [appended |-> front.appended \o last.node,
              subtree |-> Append(front.subtree, last.item),
              ret |-> LastReturn(last.node, front.ret),
              messages |-> front.messages (+) last.messages,
              throws |-> front.throws \/ last.throws]

---------------------------------------------------------------------------
(* AST.addToDOM, one host operation at a time *)

\* The host operations of recurse: a node is created, attributes are set on
\* an element, a node is appended to another.
NoNode == createTextNode(<<>>)
CreateOp(id, node) ==
    [op |-> "create", id |-> id, to |-> 0, node |-> node, attrs |-> EmptyMap]
AttrOp(id, attrs) ==
    [op |-> "attr", id |-> id, to |-> 0, node |-> NoNode, attrs |-> attrs]
AppendOp(to, id) ==
    [op |-> "appendChild", id |-> id, to |-> to, node |-> NoNode, attrs |-> EmptyMap]

\* A plausible bug: the element is appended to its parent as soon as it exists.
ElementStepsAttachFirst(create, attrs, text, below, attach) ==
    create \o attach \o attrs \o text \o below

\* The order of the allowed-tag branch: createElementNS, attr(), the
\* appendChild of the text node, recurse(item.children, node), and, after
\* the branch, subParent.appendChild(node).
ElementSteps(create, attrs, text, below, attach) ==
    create \o attrs \o text \o below \o attach

RECURSIVE Program(_, _, _, _)

\* The operations for one item; `next` is the index the next created node
\* gets on the heap.
ItemProgram(item, parentId, parentNS, next) ==
    LET hasText == item.textContent # <<>>
        textId == next
        afterText == IF hasText THEN next + 1 ELSE next
        createText == IF hasText
                      THEN <<CreateOp(textId, createTextNode(item.textContent))>>
                      ELSE <<>>
    IN  IF item.tagName = "#text"
        THEN [ops |-> createText \o (IF hasText THEN <<AppendOp(parentId, textId)>>
                                     ELSE <<>>),
              next |-> afterText]
        ELSE IF item.tagName # "" /\ TagAllowed(item.tagName)
        THEN LET NS == ElementNS(item.tagName, parentNS)
                 elementId == afterText
                 filtered == filterUserAttributes(
                                 MergeFlat(IF item.hasAttributes THEN item.attributes
                                           ELSE EmptyMap, item.flat))
                 below == Program(item.children, elementId, NS, elementId + 1)
             IN  [ops |-> createText \o ElementSteps(
                              <<CreateOp(elementId, createElementNS(NS, item.tagName))>>,
                              <<AttrOp(elementId, filtered.attributes)>>,
                              IF hasText THEN <<AppendOp(elementId, textId)>> ELSE <<>>,
                              below.ops,
                              <<AppendOp(parentId, elementId)>>),
                  next |-> below.next]
        ELSE [ops |-> createText, next |-> afterText]

\* The operations of recurse(subtree, subParent), in the order of the forEach.
Program(subtree, parentId, parentNS, next) ==
    IF subtree = <<>> THEN [ops |-> <<>>, next |-> next]
    ELSE LET first == ItemProgram(Head(subtree), parentId, parentNS, next)
             rest == Program(Tail(subtree), parentId, parentNS, first.next)
         IN  [ops |-> first.ops \o rest.ops, next |-> rest.next]

\* The heap after one operation.
ApplyOp(h, o) ==
    CASE o.op = "create" -> Append(h, [node |-> o.node, kids |-> <<>>])
      [] o.op = "attr" -> [h EXCEPT ![o.id].node = attr(@, o.attrs)]
      [] OTHER -> [h EXCEPT ![o.to].kids = Append(@, o.id)]

\* The trees below a heap node as they stand.
RECURSIVE ResolveKids(_, _)
ResolveKids(h, id) ==
    [i \in 1..Len(h[id].kids) |->
        appendChildren(h[h[id].kids[i]].node, ResolveKids(h, h[id].kids[i]))]

---------------------------------------------------------------------------
(* AST.parseMarkup *)

WhitespaceChars == {" ", "\t", "\n", "\r", "\f"}

\* /^[\s]*$/.test(textContent)
IsWhitespaceOnly(textContent) ==
    \A i \in 1..Len(textContent) : textContent[i] \in WhitespaceChars

RECURSIVE trimStart(_)
trimStart(chars) ==
    IF chars # <<>> /\ Head(chars) \in WhitespaceChars
    THEN trimStart(Tail(chars)) ELSE chars

RECURSIVE trimEnd(_)
trimEnd(chars) ==
    IF chars # <<>> /\ chars[Len(chars)] \in WhitespaceChars
    THEN trimEnd(SubSeq(chars, 1, Len(chars) - 1)) ELSE chars

\* A markup string is a sequence of tokens: an opening tag with its
\* attributes, a closing tag, or a run of text.
OpenTag(name, attrs) == [k |-> "open", name |-> name, attrs |-> attrs, text |-> <<>>]
CloseTag == [k |-> "close", name |-> "", attrs |-> EmptyMap, text |-> <<>>]
TextRun(chars) == [k |-> "text", name |-> "", attrs |-> EmptyMap, text |-> chars]

RECURSIVE trimTokensStart(_)
trimTokensStart(tokens) ==
    IF tokens = <<>> \/ Head(tokens).k # "text" THEN tokens
    ELSE LET rest == trimStart(Head(tokens).text)
         IN  IF rest = <<>> THEN trimTokensStart(Tail(tokens))
             ELSE <<TextRun(rest)>> \o Tail(tokens)

RECURSIVE trimTokensEnd(_)
trimTokensEnd(tokens) ==
    IF tokens = <<>> \/ tokens[Len(tokens)].k # "text" THEN tokens
    ELSE LET rest == trimEnd(tokens[Len(tokens)].text)
             front == SubSeq(tokens, 1, Len(tokens) - 1)
         IN  IF rest = <<>> THEN trimTokensEnd(front)
             ELSE Append(front, TextRun(rest))

\* markup.trim()
trim(tokens) == trimTokensEnd(trimTokensStart(tokens))

\* The nodeName of a parsed HTML element is its upper-cased tag name.
toUpperCase(name) ==
    CASE name = "div" -> "DIV"
      [] name = "a" -> "A"
      [] name = "b" -> "B"
      [] name = "script" -> "SCRIPT"
      [] name = "clipPath" -> "CLIPPATH"
      [] OTHER -> name

\* node.nodeName.toLowerCase()
toLowerCase(name) ==
    CASE name = "DIV" -> "div"
      [] name = "A" -> "a"
      [] name = "B" -> "b"
      [] name = "SCRIPT" -> "script"
      [] name = "CLIPPATH" -> "clippath"
      [] OTHER -> name

\* A node of the parsed document: nodeName, textContent of a text node,
\* attributes (hasAttributes: elements have an attribute list, text nodes
\* have none) and childNodes.
NativeText(chars) ==
    [nodeName |-> "#text", textContent |-> chars, hasAttributes |-> FALSE,
     attributes |-> EmptyMap, childNodes |-> <<>>]
NativeElement(name, attrs, childNodes) ==
    [nodeName |-> toUpperCase(name), textContent |-> <<>>,
     hasAttributes |-> TRUE, attributes |-> attrs, childNodes |-> childNodes]

\* Adjacent runs of text are one text node.
MergeText(node, following) ==
    IF following # <<>> /\ node.nodeName = "#text"
       /\ Head(following).nodeName = "#text"
    THEN <<NativeText(node.textContent \o Head(following).textContent)>>
         \o Tail(following)
    ELSE <<node>> \o following

\* new DOMParser().parseFromString(markup, 'text/html').body.childNodes, or
\* the childNodes of a div whose innerHTML is the markup: the siblings that
\* start at token i, and the index after the tag that closes them.
RECURSIVE parseFromString(_, _)
parseFromString(tokens, i) ==
    IF i > Len(tokens) THEN [childNodes |-> <<>>, next |-> i]
    ELSE IF tokens[i].k = "close" THEN [childNodes |-> <<>>, next |-> i + 1]
    ELSE IF tokens[i].k = "text"
    THEN LET rest == parseFromString(tokens, i + 1)
         IN  [childNodes |-> MergeText(NativeText(tokens[i].text), rest.childNodes),
              next |-> rest.next]
    ELSE LET inner == parseFromString(tokens, i + 1)
             rest == parseFromString(tokens, inner.next)
         IN  [childNodes |-> <<NativeElement(tokens[i].name, tokens[i].attrs,
                                             inner.childNodes)>>
                             \o rest.childNodes,
              next |-> rest.next]

\* A plausible bug: tags that are not allowed are left out while parsing.
SkipTextOrDisallowed(tagName, textContent, nodesLength) ==
    \/ tagName = "#text" /\ nodesLength = 0 /\ IsWhitespaceOnly(textContent)
    \/ tagName \notin allowedTags

\* tagName === '#text' && nodes.length === 0 && /^[\s]*$/.test(textContent),
\* where `nodes` is the top-level array of parseMarkup.
SkipText(tagName, textContent, nodesLength) ==
    tagName = "#text" /\ nodesLength = 0 /\ IsWhitespaceOnly(textContent)

\* appendChildNodes(node, addTo): what is pushed onto addTo, given the
\* length of the top-level array `nodes` when the call starts.  The children
\* are walked before the node itself is pushed, so `nodes` has that same
\* length during the whole walk below the node.
RECURSIVE appendChildNodes(_, _)
appendAll(childNodes, nodesLength) ==
    LET RECURSIVE walk(_)
        walk(n) == IF n = 0 THEN <<>>
                   ELSE walk(n - 1) \o appendChildNodes(childNodes[n], nodesLength)
    IN  walk(Len(childNodes))

appendChildNodes(node, nodesLength) ==
    LET tagName == toLowerCase(node.nodeName)
    IN  IF SkipText(tagName, node.textContent, nodesLength) THEN <<>>
        ELSE <<Node(tagName,
                    IF tagName = "#text" THEN node.textContent ELSE <<>>,
                    node.hasAttributes,
                    [key \in DOMAIN node.attributes |-> Str(node.attributes[key])],
                    EmptyMap,
                    appendAll(node.childNodes, nodesLength))>>

\* The forEach over doc.body.childNodes: each call sees the top-level array
\* as the calls before it left it.
RECURSIVE appendTopLevel(_, _)
appendTopLevel(childNodes, n) ==
    IF n = 0 THEN <<>>
    ELSE LET before == appendTopLevel(childNodes, n - 1)
         IN  before \o appendChildNodes(childNodes[n], Len(before))

parseMarkup(tokens) ==
    LET doc == parseFromString(trim(tokens), 1)
    IN  appendTopLevel(doc.childNodes, Len(doc.childNodes))

\* discardElement(element)
discardElement(element) == "discarded"

\* The temporary div of parseMarkup when the call is over: none with a valid
\* DOMParser; else body = createElement('div'), and discardElement(body)
\* once the forEach over the child nodes has returned.
parseContainer(walkRaises) ==
    IF hasValidDOMParser THEN "none"
    ELSE IF walkRaises THEN "held"
    ELSE discardElement("held")

---------------------------------------------------------------------------
(* Bounds and inputs *)

MaxLen == 3         \* longest sequence of sibling nodes drawn
MaxAdds == 2        \* addToDOM calls in one behaviour
MaxTokens == 5      \* longest markup drawn, in tokens

MaxAttrs == 2

\* Attribute mappings with at most MaxAttrs keys.
AttrMaps ==
    UNION {[D -> Values] : D \in {D \in SUBSET Keys : Cardinality(D) <= MaxAttrs}}

SeqsUpTo(S, n) == UNION {[1..m -> S] : m \in 0..n}

TextHi == <<"h", "i">>

Plain(tagName, textContent, children) ==
    Node(tagName, textContent, FALSE, EmptyMap, EmptyMap, children)

DivNode == Plain("div", <<>>, <<>>)
TextNode == Plain("#text", TextHi, <<>>)

\* The nodes sibling sequences are drawn from: allowed, disallowed, allowed
\* once pushed, text, no tagName, and a disallowed node with an allowed child.
Inner ==
    {DivNode, Plain("div", TextHi, <<>>), Plain("script", <<>>, <<>>),
     Plain("blink", <<>>, <<>>), TextNode, Plain("", TextHi, <<>>),
     Plain("script", <<>>, <<DivNode>>)}

Siblings == SeqsUpTo(Inner, MaxLen)

\* One more level: an allowed or a disallowed element around a short sequence.
Wrapped ==
    {<<Plain(tagName, textContent, children)>> :
        tagName \in {"div", "script"}, textContent \in {<<>>, TextHi},
        children \in {s \in Siblings : Len(s) \in 1..2}}

\* A div with an attributes mapping (or none) and legacy flat keys, at the
\* top level, below an allowed element and below a disallowed one.
SmallMaps == {m \in AttrMaps : Cardinality(DOMAIN m) <= 1}
AttrNodes ==
    {Node("div", <<>>, TRUE, a, f, <<>>) : a \in SmallMaps, f \in SmallMaps}
    \cup {Node("div", <<>>, FALSE, EmptyMap, f, <<>>) : f \in SmallMaps}
AttrTrees ==
    {<<n>> : n \in AttrNodes}
    \cup {<<Plain(tagName, <<>>, <<n>>)>> : tagName \in {"div", "script"}, n \in AttrNodes}

\* Namespaces, and text nodes that carry what only elements should.
SvgNode == Plain("svg", <<>>, <<DivNode>>)
\* An element with text, children, and attributes of which one passes the
\* filter, one passes once pushed and one never does.
MixedNode ==
    Node("div", TextHi, TRUE,
         ("id" :> Num(5)) @@ ("data-value" :> Str(TextHi))
            @@ ("href" :> Str(JavascriptAlert)),
         EmptyMap, <<DivNode, Plain("script", <<>>, <<>>), TextNode>>)
\* {tagName: '#text', textContent: ''}
EmptyTextNode == [Plain("#text", <<>>, <<>>) EXCEPT !.hasTextContent = TRUE]
OddTrees ==
    {<<SvgNode>>, <<MixedNode>>, <<EmptyTextNode>>, <<DivNode, EmptyTextNode>>, <<Plain("svg", <<>>, <<>>)>>, <<DivNode>>,
     <<Plain("div", <<>>, <<DivNode>>)>>, <<Plain("div", <<>>, <<SvgNode>>)>>,
     <<Plain("#text", <<>>, <<>>)>>,
     <<Node("#text", TextHi, TRUE, [id |-> Str(TextHi)], EmptyMap, <<DivNode>>)>>}

EmptyParent(NS) == createElementNS(NS, "div")

\* The (nodes, parent) pairs an AST is constructed from and added to.
Sources ==
    ((Siblings \cup Wrapped \cup AttrTrees) \X {EmptyParent(HTML_NS)})
    \cup (OddTrees \X {EmptyParent(HTML_NS), EmptyParent(SVG_NS), EmptyParent(NoNS)})

\* Markup: well-nested token sequences.
Tokens ==
    {OpenTag("div", [onclick |-> <<"x">>]), OpenTag("b", EmptyMap),
     OpenTag("script", EmptyMap), CloseTag, TextRun(TextHi), TextRun(<<" ">>)}

RECURSIVE Depth(_, _)
Depth(tokens, n) ==
    IF n = 0 THEN 0
    ELSE Depth(tokens, n - 1)
         + (IF tokens[n].k = "open" THEN 2 ELSE 0)
         - (IF tokens[n].k = "text" THEN 0 ELSE 1)

WellFormed(tokens) ==
    /\ \A n \in 1..Len(tokens) :
          tokens[n].k = "close" => Depth(tokens, n - 1) > 0
    /\ Depth(tokens, Len(tokens)) = 0

Markups == {m \in SeqsUpTo(Tokens, MaxTokens) : WellFormed(m)}

\* Markup made of tags of allowedTags, attributes of allowedAttributes and
\* reference values with an allowed prefix only.
SafeTokens ==
    {OpenTag("b", EmptyMap), OpenTag("a", [href |-> HttpsExample]),
     OpenTag("clipPath", [id |-> <<"c">>]), CloseTag, TextRun(TextHi)}

SafeMarkups == {m \in SeqsUpTo(SafeTokens, MaxTokens) : WellFormed(m)}

\* Contents the embedding application may have given the allow-lists (they
\* are public static arrays) before markup is parsed.
AllowedTagsContents ==
    {DefaultAllowedTags, DefaultAllowedTags \cup {"script"},
     DefaultAllowedTags \ {"div", "b"}}
AllowedAttributesContents ==
    {DefaultAllowedAttributes, DefaultAllowedAttributes \cup {"onclick"}}

\* The elements setElementHTML is called on: empty, and with content.
Targets ==
    {EmptyParent(HTML_NS),
     appendChildren(EmptyParent(HTML_NS),
                    <<createTextNode(TextHi), createElementNS(HTML_NS, "b")>>)}

---------------------------------------------------------------------------
(* Operations *)

Snapshot(op) == [op |-> op, attributes |-> attributes, nodes |-> nodes, el |-> el]

allowLists == <<allowedTags, allowedAttributes, allowedReferences>>

parserVars == <<hasValidDOMParser, container>>

stepVars == <<heap, pending>>

seriesVars == <<chart, tracker, pie>>

\* AST.allowedTags.push(tagName)
PushAllowedTag ==
    \E tagName \in ExtraTags \ allowedTags :
        /\ allowedTags' = allowedTags \cup {tagName}
        /\ call' = Snapshot("push")
        /\ produced' = <<>>
        /\ UNCHANGED <<seriesVars, stepVars, allowedAttributes, allowedReferences, attributes, markup,
                       nodes, constructed, el, ret, messages, raised, adds,
                       returned, parserVars>>

\* AST.allowedAttributes.push(key)
PushAllowedAttribute ==
    \E key \in ExtraAttributes \ allowedAttributes :
        /\ allowedAttributes' = allowedAttributes \cup {key}
        /\ call' = Snapshot("push")
        /\ produced' = <<>>
        /\ UNCHANGED <<seriesVars, stepVars, allowedTags, allowedReferences, attributes, markup,
                       nodes, constructed, el, ret, messages, raised, adds,
                       returned, parserVars>>

\* AST.allowedReferences.push(ref)
PushAllowedReference ==
    \E ref \in ExtraReferences \ allowedReferences :
        /\ allowedReferences' = allowedReferences \cup {ref}
        /\ call' = Snapshot("push")
        /\ produced' = <<>>
        /\ UNCHANGED <<seriesVars, stepVars, allowedTags, allowedAttributes, attributes, markup,
                       nodes, constructed, el, ret, messages, raised, adds,
                       returned, parserVars>>

\* AST.filterUserAttributes(attributes): the object is filtered in place.
FilterUserAttributes ==
    LET r == filterUserAttributes(attributes)
    IN  /\ attributes' = r.attributes
        /\ returned' = r.returns
        /\ messages' = r.messages
        /\ raised' = r.throws
        /\ call' = Snapshot("filterUserAttributes")
        /\ UNCHANGED <<seriesVars, stepVars, allowLists, markup, nodes, constructed, el, ret, adds,
                       produced, parserVars>>

\* new AST(markup)
Construct ==
    /\ nodes' = parseMarkup(markup)
    /\ constructed' = TRUE
    /\ container' = parseContainer(FALSE)
    /\ call' = Snapshot("new AST")
    /\ UNCHANGED <<seriesVars, stepVars, allowLists, attributes, markup, el, ret, messages, raised,
                   adds, returned, produced, hasValidDOMParser>>

\* new AST(markup) in a host where walking the parsed nodes raises (the
\* recursion of appendChildNodes exhausts the call stack, [].forEach is
\* missing): the exception leaves parseMarkup and the constructor.
ConstructWalkRaises ==
    /\ parseFromString(trim(markup), 1).childNodes # <<>>
    /\ raised' = TRUE
    /\ container' = parseContainer(TRUE)
    /\ call' = Snapshot("new AST")
    /\ UNCHANGED <<seriesVars, stepVars, allowLists, attributes, markup, nodes, constructed, el, ret,
                   messages, adds, returned, produced, hasValidDOMParser>>

\* ast.addToDOM(el)
AddToDOM ==
    /\ constructed
    /\ adds < MaxAdds
    /\ LET r == recurse(nodes, el.namespaceURI)
       IN  /\ el' = appendChildren(el, r.appended)
           /\ nodes' = r.subtree
           /\ ret' = r.ret
           /\ messages' = r.messages
           /\ raised' = r.throws
           /\ produced' = Append(produced,
                  [appended |-> r.appended,
                   identities |-> NodeIdentities(adds + 1, CountCreated(r.appended)),
                   intoEmpty |-> el.childNodes = <<>>])
    /\ adds' = adds + 1
    /\ call' = Snapshot("addToDOM")
    /\ UNCHANGED <<seriesVars, stepVars, allowLists, attributes, markup, constructed, returned,
                   parserVars>>

\* The caller takes another, empty parent element for the next addToDOM.
NewParent ==
    /\ el.childNodes # <<>>
    /\ adds < MaxAdds
    /\ \E NS \in {HTML_NS, SVG_NS, NoNS} : el' = EmptyParent(NS)
    /\ call' = Snapshot("new parent")
    /\ UNCHANGED <<seriesVars, stepVars, allowLists, attributes, markup, nodes, constructed, ret,
                   messages, raised, adds, returned, produced, parserVars>>

\* ast.addToDOM(el) starts: nothing has been created yet.
BeginAddToDOM ==
    /\ constructed
    /\ adds < MaxAdds
    /\ heap = <<>>
    /\ heap' = <<[node |-> el, kids |-> <<>>]>>
    /\ pending' = Program(nodes, 1, el.namespaceURI, 2).ops
    /\ call' = Snapshot("addToDOM begins")
    /\ UNCHANGED <<seriesVars, allowLists, attributes, markup, nodes, constructed, el, ret,
                   messages, raised, adds, returned, produced, parserVars>>

\* The running call does its next host operation.
StepAddToDOM ==
    /\ heap # <<>>
    /\ pending # <<>>
    /\ heap' = ApplyOp(heap, Head(pending))
    /\ pending' = Tail(pending)
    /\ call' = Snapshot("addToDOM step")
    /\ UNCHANGED <<seriesVars, allowLists, attributes, markup, nodes, constructed, el, ret,
                   messages, raised, adds, returned, produced, parserVars>>

\* return recurse(this.nodes, parent)
ReturnAddToDOM ==
    /\ heap # <<>>
    /\ pending = <<>>
    /\ LET r == recurse(nodes, el.namespaceURI)
           built == ResolveKids(heap, 1)
       IN  /\ el' = appendChildren(el, built)
           /\ nodes' = r.subtree
           /\ ret' = r.ret
           /\ messages' = r.messages
           /\ raised' = r.throws
           /\ produced' = Append(produced,
                  [appended |-> built,
                   identities |-> NodeIdentities(adds + 1, CountCreated(built)),
                   intoEmpty |-> el.childNodes = <<>>])
    /\ heap' = <<>>
    /\ adds' = adds + 1
    /\ call' = Snapshot("addToDOM")
    /\ UNCHANGED <<seriesVars, pending, allowLists, attributes, markup, constructed, returned,
                   parserVars>>

\* A plausible bug: the previous content is kept.
ClearKept(element) == element

\* el.innerHTML = ''
ClearInnerHTML(element) == [element EXCEPT !.childNodes = <<>>]

\* AST.setElementHTML(el, markup): the AST it builds is local to the call.
SetElementHTML ==
    /\ LET cleared == ClearInnerHTML(el)
           r == recurse(parseMarkup(markup), cleared.namespaceURI)
       IN  IF markup # <<>>
           THEN /\ el' = appendChildren(cleared, r.appended)
                /\ messages' = r.messages
                /\ raised' = r.throws
           ELSE /\ el' = cleared
                /\ messages' = EmptyBag
                /\ raised' = FALSE
    /\ container' = IF markup # <<>> THEN parseContainer(FALSE) ELSE container
    /\ call' = Snapshot("setElementHTML")
    /\ UNCHANGED <<seriesVars, stepVars, allowLists, attributes, markup, nodes, constructed, ret, adds,
                   returned, produced, hasValidDOMParser>>

---------------------------------------------------------------------------
(* Specifications *)

Defaults ==
    /\ allowedTags = DefaultAllowedTags
    /\ allowedAttributes = DefaultAllowedAttributes
    /\ allowedReferences = DefaultAllowedReferences
    /\ ret = <<>>
    /\ messages = EmptyBag
    /\ raised = FALSE
    /\ adds = 0
    /\ returned = "none"
    /\ produced = <<>>
    /\ container = "none"
    /\ heap = <<>>
    /\ pending = <<>>
    /\ chart = <<>>
    /\ tracker = <<>>
    /\ pie = <<>>

\* An AST constructed from a Node sequence, then added to the DOM.
Init ==
    /\ Defaults
    /\ hasValidDOMParser = TRUE
    /\ \E source \in Sources : nodes = source[1] /\ el = source[2]
    /\ constructed = TRUE
    /\ attributes = EmptyMap
    /\ markup = <<>>
    /\ call = Snapshot("new AST")

Next ==
    \/ PushAllowedTag
    \/ PushAllowedAttribute
    \/ PushAllowedReference
    \/ AddToDOM

Spec == Init /\ [][Next]_vars

\* The same instance added to the DOM again, each time into a parent of
\* the caller's choice.
InitAgain ==
    /\ Defaults
    /\ hasValidDOMParser = TRUE
    /\ \E source \in Sources :
          /\ source[1] \in Wrapped \cup AttrTrees \cup OddTrees
          /\ nodes = source[1]
          /\ el = source[2]
    /\ constructed = TRUE
    /\ attributes = EmptyMap
    /\ markup = <<>>
    /\ call = Snapshot("new AST")

NextAgain ==
    \/ PushAllowedTag
    \/ PushAllowedAttribute
    \/ AddToDOM
    \/ NewParent

SpecAgain == InitAgain /\ [][NextAgain]_vars

\* addToDOM followed through its host operations.
NextSteps ==
    \/ BeginAddToDOM
    \/ StepAddToDOM
    \/ ReturnAddToDOM

SpecSteps == Init /\ [][NextSteps]_vars

\* filterUserAttributes on its own.
InitFilter ==
    /\ Defaults
    /\ hasValidDOMParser = TRUE
    /\ attributes \in AttrMaps
    /\ nodes = <<>>
    /\ constructed = FALSE
    /\ el = EmptyParent(HTML_NS)
    /\ markup = <<>>
    /\ call = Snapshot("none")

NextFilter ==
    \/ PushAllowedAttribute
    \/ PushAllowedReference
    \/ FilterUserAttributes

SpecFilter == InitFilter /\ [][NextFilter]_vars

\* Markup: the constructor and setElementHTML.
InitMarkup ==
    /\ Defaults
    /\ hasValidDOMParser = TRUE
    /\ markup \in Markups
    /\ el \in Targets
    /\ nodes = <<>>
    /\ constructed = FALSE
    /\ attributes = EmptyMap
    /\ call = Snapshot("none")

NextMarkup ==
    \/ Construct
    \/ AddToDOM
    \/ SetElementHTML

SpecMarkup == InitMarkup /\ [][NextMarkup]_vars

\* Markup parsed under allow-lists of various contents.
InitParse ==
    /\ allowedTags \in AllowedTagsContents
    /\ allowedAttributes \in AllowedAttributesContents
    /\ allowedReferences = DefaultAllowedReferences
    /\ ret = <<>> /\ messages = EmptyBag /\ raised = FALSE /\ adds = 0
    /\ returned = "none" /\ produced = <<>>
    /\ hasValidDOMParser = TRUE /\ container = "none"
    /\ heap = <<>> /\ pending = <<>>
    /\ chart = <<>> /\ tracker = <<>> /\ pie = <<>>
    /\ markup \in Markups
    /\ el = EmptyParent(HTML_NS)
    /\ nodes = <<>>
    /\ constructed = FALSE
    /\ attributes = EmptyMap
    /\ call = Snapshot("none")

NextParse == Construct

SpecParse == InitParse /\ [][NextParse]_vars

\* Markup parsed with and without a valid DOMParser, in a host where the
\* walk over the parsed nodes may raise.
InitFallback ==
    /\ Defaults
    /\ hasValidDOMParser \in BOOLEAN
    /\ markup \in Markups
    /\ el = EmptyParent(HTML_NS)
    /\ nodes = <<>>
    /\ constructed = FALSE
    /\ attributes = EmptyMap
    /\ call = Snapshot("none")

NextFallback ==
    \/ Construct
    \/ ConstructWalkRaises

SpecFallback == InitFallback /\ [][NextFallback]_vars

\* Safe markup parsed, then added to an empty element.
InitRoundTrip ==
    /\ Defaults
    /\ hasValidDOMParser = TRUE
    /\ markup \in SafeMarkups
    /\ el = EmptyParent(HTML_NS)
    /\ nodes = <<>>
    /\ constructed = FALSE
    /\ attributes = EmptyMap
    /\ call = Snapshot("none")

NextRoundTrip ==
    \/ Construct
    \/ AddToDOM

SpecRoundTrip == InitRoundTrip /\ [][NextRoundTrip]_vars

---------------------------------------------------------------------------
(* Claims about filterUserAttributes (checked under SpecFilter) *)

HasAllowedPrefix(val) ==
    isString(val) /\ \E ref \in allowedReferences : StartsWith(val.s, ref)

\* C1: filtering a one-pair mapping {k: v} retains the pair if and only if k
\* is in allowedAttributes and (k is no reference attribute or v is a string
\* that starts with a member of allowedReferences).
C1_RetainedIffAllowedAndSafe ==
    (call.op = "filterUserAttributes" /\ Cardinality(DOMAIN call.attributes) = 1) =>
        \A k \in DOMAIN call.attributes :
            (k \in DOMAIN attributes) <=>
                /\ k \in allowedAttributes
                /\ k \notin ReferenceAttributes \/ HasAllowedPrefix(call.attributes[k])

\* C2: a reference attribute survives filterUserAttributes only with a string
\* value that starts with an allowed reference: javascript:alert(1) is
\* removed, href https://example.com is retained, a number is removed.
C2_ReferenceNeedsAllowedPrefix ==
    call.op = "filterUserAttributes" =>
        /\ \A k \in ReferenceAttributes \cap DOMAIN attributes :
              HasAllowedPrefix(attributes[k])
        /\ \A k \in ReferenceAttributes \cap DOMAIN call.attributes :
              /\ call.attributes[k] = Str(JavascriptAlert) => k \notin DOMAIN attributes
              /\ ~isString(call.attributes[k]) => k \notin DOMAIN attributes
              /\ (k = "href" /\ call.attributes[k] = Str(HttpsExample)) =>
                    (k \in DOMAIN attributes /\ attributes[k] = Str(HttpsExample))

C2_Witness ==
    /\ call.op = "filterUserAttributes"
    /\ call.attributes = [href |-> Str(HttpsExample), background |-> Str(JavascriptAlert)]
    /\ attributes = [href |-> Str(HttpsExample)]

---------------------------------------------------------------------------
(* Claims about addToDOM (checked under Spec) *)

\* The nodes the last addToDOM appended to the parent.
Appended == SubSeq(el.childNodes, Len(call.el.childNodes) + 1, Len(el.childNodes))

\* C3: addToDOM of the single-node tree {tagName: t}, t other than '#text',
\* creates and appends an element if and only if t is in allowedTags at the
\* time of the call; otherwise the parent is left unchanged.
C3_ElementIffTagAllowed ==
    (/\ call.op = "addToDOM"
     /\ Len(call.nodes) = 1
     /\ call.nodes[1].tagName \notin {"", "#text"}
     /\ call.nodes = <<Plain(call.nodes[1].tagName, <<>>, <<>>)>>) =>
        IF call.nodes[1].tagName \in allowedTags
        THEN /\ Len(Appended) = 1
             /\ Appended[1].nodeName = call.nodes[1].tagName
             /\ SubSeq(el.childNodes, 1, Len(call.el.childNodes)) = call.el.childNodes
        ELSE el = call.el

C3_Witness ==
    /\ call.op = "addToDOM"
    /\ call.nodes = <<Plain("blink", <<>>, <<>>)>>
    /\ "blink" \in allowedTags
    /\ Len(Appended) = 1
    /\ Appended[1].nodeName = "blink"

\* The shape of created nodes: names and nesting.
RECURSIVE ShapeOf(_)
ShapeOf(domNodes) ==
    [i \in 1..Len(domNodes) |->
        [name |-> domNodes[i].nodeName, kids |-> ShapeOf(domNodes[i].childNodes)]]

\* The shape a Node sequence is to produce: a node whose tag is not allowed
\* contributes nothing, whatever is below it; the others keep their order.
RECURSIVE KeptShape(_)
KeptShape(items) ==
    IF items = <<>> THEN <<>>
    ELSE LET item == Head(items)
             text == IF item.textContent # <<>>
                     THEN <<[name |-> "#text", kids |-> <<>>]>> ELSE <<>>
             this == IF item.tagName = "#text" THEN text
                     ELSE IF item.tagName # "" /\ item.tagName \in allowedTags
                     THEN <<[name |-> item.tagName,
                             kids |-> text \o KeptShape(item.children)]>>
                     ELSE <<>>
         IN  this \o KeptShape(Tail(items))

\* C4: a node whose tagName is not allowed yields no element and none of its
\* descendants appears anywhere in the output; its siblings before and after
\* it are materialized in their original order.
C4_DisallowedSubtreeDropped ==
    call.op = "addToDOM" => ShapeOf(Appended) = KeptShape(call.nodes)

C4_Witness ==
    /\ call.op = "addToDOM"
    /\ call.nodes = <<DivNode, Plain("script", <<>>, <<DivNode>>), TextNode>>
    /\ ShapeOf(Appended) = <<[name |-> "div", kids |-> <<>>],
                             [name |-> "#text", kids |-> <<>>]>>

\* Every element among the nodes and below them.
RECURSIVE ElementsOf(_)
ElementsOf(domNodes) ==
    IF domNodes = <<>> THEN {}
    ELSE (IF Head(domNodes).nodeName = "#text" THEN {} ELSE {Head(domNodes)})
         \cup ElementsOf(Head(domNodes).childNodes)
         \cup ElementsOf(Tail(domNodes))

\* C5: every attribute applied to a created element has a key in
\* allowedAttributes and, if it is a reference attribute, a string value
\* that starts with an allowed reference.
C5_AppliedAttributesPassFilter ==
    call.op = "addToDOM" =>
        \A e \in ElementsOf(Appended) : \A k \in DOMAIN e.attributes :
            /\ k \in allowedAttributes
            /\ k \in ReferenceAttributes =>
                  \E ref \in allowedReferences : StartsWith(e.attributes[k], ref)

\* C7: addToDOM returns the last node created at the top level of the
\* sequence, and undefined exactly when no top-level node produced one.
C7_ReturnsLastCreatedTopLevel ==
    call.op = "addToDOM" =>
        ret = IF Appended = <<>> THEN <<>> ELSE <<Appended[Len(Appended)]>>

\* C8: addToDOM, and the filterUserAttributes calls it makes, never raise,
\* whatever tags, attribute keys and values the Node sequence carries.
C8_NeverRaises ==
    call.op = "addToDOM" => ~raised

C8_WitnessNumericReference ==
    /\ call.op = "addToDOM"
    /\ call.nodes = <<Node("div", <<>>, TRUE, [href |-> Num(5)], EmptyMap, <<>>)>>
    /\ ~raised
    /\ Len(Appended) = 1
    /\ BagCardinality(messages) = 1

\* What addToDOM may do to a Node sequence: remove keys from attributes.
RECURSIVE OnlyRemoved(_, _)
OnlyRemoved(before, after) ==
    /\ Len(after) = Len(before)
    /\ \A i \in 1..Len(before) :
          /\ after[i].tagName = before[i].tagName
          /\ after[i].textContent = before[i].textContent
          /\ after[i].hasAttributes = before[i].hasAttributes
          /\ after[i].flat = before[i].flat
          /\ DOMAIN after[i].attributes \subseteq DOMAIN before[i].attributes
          /\ \A k \in DOMAIN after[i].attributes :
                after[i].attributes[k] = before[i].attributes[k]
          /\ OnlyRemoved(before[i].children, after[i].children)

\* C10: addToDOM changes the source Node tree only by removing keys from
\* attributes mappings: it adds no key, changes no retained value and leaves
\* tagName, textContent and children alone.
C10_SourceOnlyLosesKeys ==
    call.op = "addToDOM" => OnlyRemoved(call.nodes, nodes)

---------------------------------------------------------------------------
(* Claims about markup (checked under SpecMarkup) *)

\* C6: after setElementHTML none of the previous children remains: no
\* children for empty markup, otherwise exactly what parsing the markup and
\* materializing it into an empty element gives.
C6_SetElementHTMLReplacesContent ==
    call.op = "setElementHTML" =>
        el.childNodes = IF markup = <<>> THEN <<>>
                        ELSE recurse(parseMarkup(markup), el.namespaceURI).appended

C6_Witness ==
    /\ call.op = "setElementHTML"
    /\ call.el.childNodes # <<>>
    /\ markup # <<>>
    /\ Len(el.childNodes) = 1
    /\ el.childNodes[1].nodeName = "div"

RECURSIVE CountNativeText(_)
CountNativeText(childNodes) ==
    IF childNodes = <<>> THEN 0
    ELSE (IF Head(childNodes).nodeName = "#text" THEN 1 ELSE 0)
         + CountNativeText(Head(childNodes).childNodes)
         + CountNativeText(Tail(childNodes))

RECURSIVE CountText(_)
CountText(items) ==
    IF items = <<>> THEN 0
    ELSE (IF Head(items).tagName = "#text" THEN 1 ELSE 0)
         + CountText(Head(items).children)
         + CountText(Tail(items))

\* C9: parseMarkup drops a whitespace-only text node only when it is the
\* first node at the top level; every other text node of the parsed
\* document, nested ones included, is in the Node tree.
C9_OnlyTopLevelLeadingWhitespaceDropped ==
    call.op = "new AST" =>
        LET native == parseFromString(trim(markup), 1).childNodes
            leading == IF native # <<>> /\ native[1].nodeName = "#text"
                          /\ IsWhitespaceOnly(native[1].textContent)
                       THEN 1 ELSE 0
        IN  CountText(nodes) + leading = CountNativeText(native)

---------------------------------------------------------------------------
(* Claims about repeated addToDOM calls (checked under SpecAgain) *)

\* Tags, attributes, text and order of a sequence of host trees.
RECURSIVE Structure(_)
Structure(domNodes) ==
    [i \in 1..Len(domNodes) |->
        [tag |-> domNodes[i].nodeName,
         attributes |-> domNodes[i].attributes,
         text |-> domNodes[i].data,
         children |-> Structure(domNodes[i].childNodes)]]

\* C11: two addToDOM calls on the same instance, the allow-lists unchanged
\* in between and each into an empty parent, create structurally equal
\* trees (same tags, attributes, text and order) out of nodes of their own:
\* no node of one call is a node of the other, and every node is counted once.
C11_RematerializedEqualAndFresh ==
    \A i \in 1..Len(produced) : \A j \in 1..Len(produced) :
        (i < j /\ produced[i].intoEmpty /\ produced[j].intoEmpty) =>
            /\ Structure(produced[i].appended) = Structure(produced[j].appended)
            /\ produced[i].identities \cap produced[j].identities = {}
            /\ Cardinality(produced[j].identities) = CountCreated(produced[j].appended)

\* Two calls into empty parents of different namespaces, each creating an
\* element with content.
C11_Witness ==
    /\ Len(produced) = 2
    /\ produced[1].intoEmpty /\ produced[2].intoEmpty
    /\ CountCreated(produced[2].appended) >= 2
    /\ produced[1].appended[1].namespaceURI # produced[2].appended[1].namespaceURI

---------------------------------------------------------------------------
(* Claims about the created tree (checked under Spec) *)

\* Whether addToDOM creates a host node for the item.
Materializes(item) ==
    IF item.tagName = "#text" THEN item.textContent # <<>>
    ELSE item.tagName # "" /\ item.tagName \in allowedTags

RECURSIVE InSourceOrder(_, _)
InSourceOrder(items, domNodes) ==
    LET kept == SelectSeq(items, Materializes)
    IN  /\ Len(domNodes) = Len(kept)
        /\ \A i \in 1..Len(kept) :
              LET item == kept[i]
                  node == domNodes[i]
                  own == IF item.textContent # <<>> THEN 1 ELSE 0
              IN  /\ node.nodeName = item.tagName
                  /\ item.tagName = "#text" => node.data = item.textContent
                  /\ item.tagName # "#text" =>
                        /\ Len(node.childNodes) >= own
                        /\ own = 1 => node.childNodes[1] = createTextNode(item.textContent)
                        /\ InSourceOrder(item.children,
                                         SubSeq(node.childNodes, own + 1,
                                                Len(node.childNodes)))

\* C12: at every level the created children stand in the order of their
\* source nodes, and the text node made from an element's textContent
\* stands before everything made from its children.
C12_DocumentOrderPreserved ==
    call.op = "addToDOM" => InSourceOrder(call.nodes, Appended)

\* An element with text, an element child and a text child.
C12_Witness ==
    /\ call.op = "addToDOM"
    /\ call.nodes = <<Plain("div", TextHi, <<DivNode, TextNode>>)>>
    /\ Len(Appended) = 1
    /\ [i \in 1..Len(Appended[1].childNodes) |-> Appended[1].childNodes[i].nodeName]
          = <<"#text", "div", "#text">>

---------------------------------------------------------------------------
(* Claims about the round trip (checked under SpecRoundTrip) *)

SafeMarkup(tokens) ==
    \A n \in 1..Len(tokens) :
        tokens[n].k = "open" =>
            /\ tokens[n].name \in allowedTags
            /\ \A key \in DOMAIN tokens[n].attrs :
                  /\ key \in allowedAttributes
                  /\ key \in ReferenceAttributes =>
                        HasAllowedPrefix(Str(tokens[n].attrs[key]))

\* Tag names, attributes and text read back from host nodes.
RECURSIVE ReadBack(_)
ReadBack(domNodes) ==
    [i \in 1..Len(domNodes) |->
        [tagName |-> domNodes[i].nodeName,
         attributes |-> domNodes[i].attributes,
         text |-> domNodes[i].data,
         children |-> ReadBack(domNodes[i].childNodes)]]

\* The same of a parsed Node sequence.
RECURSIVE Content(_)
Content(items) ==
    [i \in 1..Len(items) |->
        [tagName |-> items[i].tagName,
         attributes |-> [key \in DOMAIN items[i].attributes |->
                            items[i].attributes[key].s],
         text |-> items[i].textContent,
         children |-> Content(items[i].children)]]

\* C13: for markup made only of allowed tags, allowed attributes and safe
\* reference values, the tree addToDOM creates in an empty parent reads back
\* (tag names, attributes, text) as the parsed Node tree.
C13_SafeMarkupRoundTrip ==
    (call.op = "addToDOM" /\ call.el.childNodes = <<>> /\ SafeMarkup(markup))
        => ReadBack(Appended) = Content(call.nodes)

---------------------------------------------------------------------------
(* Claims about attributes on created elements (checked under Spec) *)

\* The (source item, created element) pairs of a call, at every depth.
RECURSIVE CreatedPairs(_, _)
CreatedPairs(items, domNodes) ==
    LET kept == SelectSeq(items, Materializes)
        n == IF Len(kept) < Len(domNodes) THEN Len(kept) ELSE Len(domNodes)
    IN  UNION {IF kept[i].tagName = "#text" THEN {}
               ELSE LET own == IF kept[i].textContent # <<>> THEN 1 ELSE 0
                        below == domNodes[i].childNodes
                    IN  {<<kept[i], domNodes[i]>>}
                        \cup CreatedPairs(kept[i].children,
                                          SubSeq(below, own + 1, Len(below)))
               : i \in 1..n}

\* The attributes an item asks for: its `attributes` and its flat keys.
Candidates(item) ==
    [key \in (IF item.hasAttributes THEN DOMAIN item.attributes ELSE {})
              \cup DOMAIN item.flat |->
        IF key \in DOMAIN item.flat THEN item.flat[key] ELSE item.attributes[key]]

\* Whether the filter retains the pair when it is handed that pair alone.
Passes(key, val) == key \in DOMAIN filterUserAttributes(key :> val).attributes

\* C14: a disallowed attribute on a node with an allowed tag removes that
\* attribute only: the element is created, every other attribute that
\* passes the filter is applied, the text and the children are materialized.
C14_DisallowedAttributeRemovedAlone ==
    call.op = "addToDOM" =>
        /\ InSourceOrder(call.nodes, Appended)
        /\ \A pair \in CreatedPairs(call.nodes, Appended) :
              LET asked == Candidates(pair[1])
                  passing == {key \in DOMAIN asked : Passes(key, asked[key])}
              IN  passing # DOMAIN asked =>
                      pair[2].attributes =
                          [key \in passing |-> ToAttributeString(asked[key])]

\* id passes, href javascript: does not; the text and the div below are there.
C14_Witness ==
    /\ call.op = "addToDOM"
    /\ call.nodes = <<MixedNode>>
    /\ Len(Appended) = 1
    /\ DOMAIN Appended[1].attributes = {"id"}
    /\ Len(Appended[1].childNodes) = 3
    /\ Appended[1].childNodes[1].data = TextHi
    /\ Appended[1].childNodes[2].nodeName = "div"

---------------------------------------------------------------------------
(* Claims about namespaces (checked under SpecAgain) *)

RECURSIVE NamespacesFollow(_, _, _)
NamespacesFollow(domNodes, parentNS, belowSvg) ==
    \A i \in 1..Len(domNodes) :
        LET node == domNodes[i]
        IN  node.nodeName # "#text" =>
                /\ node.nodeName = "svg" => node.namespaceURI = SVG_NS
                /\ node.nodeName # "svg" =>
                      node.namespaceURI =
                          IF parentNS # NoNS THEN parentNS ELSE SVG_NS
                /\ belowSvg => node.namespaceURI = SVG_NS
                /\ NamespacesFollow(node.childNodes, node.namespaceURI,
                                    belowSvg \/ node.nodeName = "svg")

\* C15: an 'svg' element is created in the SVG namespace whatever its
\* parent; any other element takes the namespace of the element it is
\* appended to, the SVG namespace when that one has none; so every element
\* below an 'svg' element is in the SVG namespace.
C15_NamespaceSelection ==
    call.op = "addToDOM" =>
        NamespacesFollow(Appended, call.el.namespaceURI, FALSE)

\* div > svg > div added to an HTML parent: HTML, SVG, SVG.
C15_Witness ==
    /\ call.op = "addToDOM"
    /\ call.el.namespaceURI = HTML_NS
    /\ Len(Appended) = 1
    /\ Appended[1].nodeName = "div" /\ Appended[1].namespaceURI = HTML_NS
    /\ Len(Appended[1].childNodes) = 1
    /\ Appended[1].childNodes[1].nodeName = "svg"
    /\ Appended[1].childNodes[1].namespaceURI = SVG_NS
    /\ Len(Appended[1].childNodes[1].childNodes) = 1
    /\ Appended[1].childNodes[1].childNodes[1].nodeName = "div"
    /\ Appended[1].childNodes[1].childNodes[1].namespaceURI = SVG_NS

---------------------------------------------------------------------------
(* Claims about the filter's argument (checked under SpecFilter) *)

\* C16: filterUserAttributes works in place: it returns the object it was
\* given, and after the call that object holds exactly the retained pairs:
\* no key is added and the value of every retained key is unchanged.
C16_FilterWorksInPlace ==
    call.op = "filterUserAttributes" =>
        /\ returned = "argument"
        /\ DOMAIN attributes =
              {key \in DOMAIN call.attributes : Passes(key, call.attributes[key])}
        /\ DOMAIN attributes \subseteq DOMAIN call.attributes
        /\ \A key \in DOMAIN attributes : attributes[key] = call.attributes[key]

\* A mapping of two keys of which the call deletes one.
C16_Witness ==
    /\ call.op = "filterUserAttributes"
    /\ returned = "argument"
    /\ Cardinality(DOMAIN call.attributes) = 2
    /\ Cardinality(DOMAIN attributes) = 1

---------------------------------------------------------------------------
(* Claims about allow-list edits (checked under Spec) *)

\* C17: an addToDOM call decides every tag, attribute key and reference
\* prefix against the allow-lists as they are when the call is made, also
\* for an instance constructed before the lists were edited: an element is
\* created exactly for the tags in allowedTags now, a plain attribute is
\* applied exactly when its key is in allowedAttributes now, and an allowed
\* reference attribute exactly when its value starts with a prefix in
\* allowedReferences now.
C17_AllowListsReadAtCallTime ==
    call.op = "addToDOM" =>
        /\ InSourceOrder(call.nodes, Appended)
        /\ \A pair \in CreatedPairs(call.nodes, Appended) :
              LET asked == Candidates(pair[1])
                  applied == DOMAIN pair[2].attributes
              IN  \A key \in DOMAIN asked :
                      /\ key \notin ReferenceAttributes =>
                            (key \in applied <=> key \in allowedAttributes)
                      /\ key \in ReferenceAttributes \cap allowedAttributes =>
                            (key \in applied <=> HasAllowedPrefix(asked[key]))

\* 'tel:' was pushed after the instance was constructed: href tel:1 is applied.
C17_Witness ==
    /\ call.op = "addToDOM"
    /\ call.nodes = <<Node("div", <<>>, TRUE, [href |-> Str(TelNumber)], EmptyMap, <<>>)>>
    /\ allowedReferences # DefaultAllowedReferences
    /\ Len(Appended) = 1
    /\ Appended[1].attributes = [href |-> TelNumber]

---------------------------------------------------------------------------
(* Claims about parsing and the allow-lists (checked under SpecParse) *)

IsElementItem(item) == item.tagName # "#text"
IsNativeElement(node) == node.nodeName # "#text"

\* Every element of the parsed document is in the Node tree, at its place,
\* with every attribute it has.
RECURSIVE Mirrors(_, _)
Mirrors(items, native) ==
    LET elementItems == SelectSeq(items, IsElementItem)
        elements == SelectSeq(native, IsNativeElement)
    IN  /\ Len(elementItems) = Len(elements)
        /\ \A i \in 1..Len(elements) :
              /\ elementItems[i].tagName = toLowerCase(elements[i].nodeName)
              /\ DOMAIN elementItems[i].attributes = DOMAIN elements[i].attributes
              /\ \A key \in DOMAIN elements[i].attributes :
                    elementItems[i].attributes[key] = Str(elements[i].attributes[key])
              /\ Mirrors(elementItems[i].children, elements[i].childNodes)

---------------------------------------------------------------------------
(* Claims about legacy flat keys (checked under Spec) *)

\* C19: on a node with an allowed tag every flat key joins the candidate
\* attributes and goes through the same filter: the key is applied to the
\* element, with the flat value, exactly when the filter retains it.
C19_FlatKeysFiltered ==
    call.op = "addToDOM" =>
        \A pair \in CreatedPairs(call.nodes, Appended) :
            \A key \in DOMAIN pair[1].flat :
                /\ key \in DOMAIN pair[2].attributes
                      <=> Passes(key, pair[1].flat[key])
                /\ key \in DOMAIN pair[2].attributes =>
                      pair[2].attributes[key] = ToAttributeString(pair[1].flat[key])

\* {tagName: 'div', id: 5}: the flat id ends up on the element.
C19_Witness ==
    /\ call.op = "addToDOM"
    /\ call.nodes = <<Node("div", <<>>, FALSE, EmptyMap, [id |-> Num(5)], <<>>)>>
    /\ Len(Appended) = 1
    /\ Appended[1].attributes = [id |-> <<"5">>]

---------------------------------------------------------------------------
(* Claims about diagnostics (checked under Spec) *)

\* A diagnostic that names the offending attribute key and its value.
AttributeDiagnostic(key, val) == [kind |-> "attribute", name |-> key, value |-> val]

\* A diagnostic that names the offending tag.
TagDiagnostic(tagName) == [kind |-> "tagName", name |-> tagName]

\* One diagnostic for every attribute the filter removes from an element
\* that is created, one for every node skipped for its tag, nothing else.
RECURSIVE ExpectedDiagnostics(_)
ExpectedDiagnostics(items) ==
    IF items = <<>> THEN EmptyBag
    ELSE LET item == Head(items)
             asked == Candidates(item)
             own == IF item.tagName \in {"", "#text"} THEN EmptyBag
                    ELSE IF item.tagName \in allowedTags
                    THEN SetToBag({AttributeDiagnostic(key, asked[key]) :
                                     key \in {k \in DOMAIN asked : ~Passes(k, asked[k])}})
                         (+) ExpectedDiagnostics(item.children)
                    ELSE SetToBag({TagDiagnostic(item.tagName)})
         IN  own (+) ExpectedDiagnostics(Tail(items))

\* C20: every attribute the filter removes produces exactly one diagnostic
\* naming the key and its value, every node skipped for a disallowed tag
\* exactly one naming the tag; retained attributes and created elements
\* produce none; no diagnostic raises.
C20_OneDiagnosticPerRejection ==
    call.op = "addToDOM" =>
        /\ messages = ExpectedDiagnostics(call.nodes)
        /\ ~raised

---------------------------------------------------------------------------
(* Claims about the fallback parser (checked under SpecFallback) *)

\* C21: when the constructor call is over, however it ended, the temporary
\* container of parseMarkup has been handed to discardElement if there is no
\* valid DOMParser, and none was created if there is one.
C21_ContainerReleasedOnEveryPath ==
    call.op = "new AST" =>
        container = IF hasValidDOMParser THEN "none" ELSE "discarded"

---------------------------------------------------------------------------
(* Claims about text nodes (checked under Spec) *)

CarriesText(item) == item.tagName = "#text" /\ item.hasTextContent
IsTextNode(node) == node.nodeName = "#text"

\* C22: every top-level '#text' node that carries a textContent, whatever
\* its value, gives one text node with that text appended to the parent, in
\* order; the text node has no attributes and nothing below it, whatever
\* attributes or children the source node has.
C22_TextNodeForEveryTextContent ==
    call.op = "addToDOM" =>
        LET textItems == SelectSeq(call.nodes, CarriesText)
        IN  SelectSeq(Appended, IsTextNode) =
                [i \in 1..Len(textItems) |-> createTextNode(textItems[i].textContent)]

---------------------------------------------------------------------------
(* Claims about tag names (checked under SpecRoundTrip) *)

\* C23: the element Nodes of a parsed tree carry the lower-cased native
\* element names, and markup consisting of one element whose tag is listed
\* in allowedTags gives, once added to an empty parent, one element of that
\* tag.
C23_AllowedTagsProducible ==
    (call.op = "addToDOM" /\ call.el.childNodes = <<>>) =>
        /\ Mirrors(call.nodes, parseFromString(trim(markup), 1).childNodes)
        /\ (Len(markup) = 2 /\ markup[1].k = "open"
                /\ markup[1].name \in allowedTags) =>
              /\ Len(Appended) = 1
              /\ Appended[1].nodeName = markup[1].name

---------------------------------------------------------------------------
(* Claims about the order of host operations (checked under SpecSteps) *)

\* C24: while addToDOM runs, what the caller's parent has received so far
\* is a run of completely built trees: the first trees of what the call
\* appends in the end, each with its attributes, its text and everything
\* below it already in place; when no operation remains it has them all.
C24_ParentHoldsOnlyBuiltSubtrees ==
    heap # <<>> =>
        LET final == recurse(nodes, el.namespaceURI).appended
            built == ResolveKids(heap, 1)
        IN  /\ Len(built) <= Len(final)
            /\ built = SubSeq(final, 1, Len(built))
            /\ pending = <<>> => built = final

\* Mid-call: the first of two trees is in the parent, complete with what is
\* below it, and operations remain.
C24_Witness ==
    /\ heap # <<>>
    /\ pending # <<>>
    /\ Len(ResolveKids(heap, 1)) = 1
    /\ ResolveKids(heap, 1)[1].childNodes # <<>>
    /\ Len(recurse(nodes, el.namespaceURI).appended) = 2

---------------------------------------------------------------------------
(* Claims about repeated filtering (checked under SpecFilter) *)

\* C25: a filterUserAttributes call that directly follows another one, with
\* no allow-list edit in between, removes nothing, reports nothing and
\* leaves the mapping as it was.
C25_FilterIdempotent ==
    [][(call.op = "filterUserAttributes" /\ call'.op = "filterUserAttributes") =>
          /\ attributes' = attributes
          /\ messages' = EmptyBag
          /\ ~raised']_vars

\* A call on a non-empty mapping that the call before it left: nothing
\* removed, nothing reported.
C25_Witness ==
    /\ call.op = "filterUserAttributes"
    /\ call.attributes = attributes
    /\ attributes # EmptyMap
    /\ messages = EmptyBag
    /\ "data-value" \in DOMAIN attributes

---------------------------------------------------------------------------
(* ColumnSeries.getColumnMetrics *)

astVars == <<allowLists, parserVars, stepVars, attributes, markup, nodes,
             constructed, el, ret, messages, raised, adds, returned, produced>>

\* No AST in use: the state the series operations start from.
NoAST ==
    /\ allowedTags = DefaultAllowedTags
    /\ allowedAttributes = DefaultAllowedAttributes
    /\ allowedReferences = DefaultAllowedReferences
    /\ ret = <<>> /\ messages = EmptyBag /\ raised = FALSE /\ adds = 0
    /\ returned = "none" /\ produced = <<>>
    /\ container = "none" /\ heap = <<>> /\ pending = <<>>
    /\ hasValidDOMParser = TRUE
    /\ markup = <<>>
    /\ el = EmptyParent(HTML_NS)
    /\ nodes = <<>>
    /\ constructed = FALSE
    /\ attributes = EmptyMap
    /\ call = Snapshot("none")

\* One series of the chart, as far as getColumnMetrics reads it.  yAxis is
\* the axis' len and pos; stacking is "" when the option is not set;
\* grouping is FALSE when options.grouping === false; columnIndex is <<>>
\* when undefined and <<c>> when it is the number c.

Series(type, visible, yAxis, stacking, stackKey, grouping) ==
    [type |-> type, visible |-> visible, yAxis |-> yAxis, stacking |-> stacking,
     stackKey |-> stackKey, grouping |-> grouping, columnIndex |-> <<>>]

\* Whether the loop assigns otherSeries a column.
Counted(series, otherSeries, ignoreHiddenSeries) ==
    /\ otherSeries.type = series.type
    /\ (otherSeries.visible \/ ~ignoreHiddenSeries)
    /\ series.yAxis.len = otherSeries.yAxis.len
    /\ series.yAxis.pos = otherSeries.yAxis.pos

Stacked(otherSeries) ==
    otherSeries.stacking # "" /\ otherSeries.stacking # "group"

\* A plausible bug: every stacked series takes a column of its own.
StackColumnAlwaysNew(stackGroups, stackKey, columnCount) ==
    [stackGroups |-> (stackKey :> columnCount) @@ stackGroups,
     columnCount |-> columnCount + 1,
     columnIndex |-> <<columnCount>>]

\* The column of a stacked series: the one of its stack, a new one when
\* the stack has none yet.
StackColumn(stackGroups, stackKey, columnCount) ==
    IF stackKey \notin DOMAIN stackGroups
    THEN [stackGroups |-> (stackKey :> columnCount) @@ stackGroups,
          columnCount |-> columnCount + 1,
          columnIndex |-> <<columnCount>>]
    ELSE [stackGroups |-> stackGroups,
          columnCount |-> columnCount,
          columnIndex |-> <<stackGroups[stackKey]>>]

\* series.chart.series.forEach(...), from the i-th series on.
RECURSIVE forEachSeries(_, _, _, _, _, _)
forEachSeries(all, i, series, ignoreHiddenSeries, stackGroups, columnCount) ==
    IF i > Len(all) THEN [series |-> all, columnCount |-> columnCount]
    ELSE IF ~Counted(series, all[i], ignoreHiddenSeries)
    THEN forEachSeries(all, i + 1, series, ignoreHiddenSeries, stackGroups,
                       columnCount)
    ELSE IF Stacked(all[i])
    THEN LET column == StackColumn(stackGroups, all[i].stackKey, columnCount)
         IN  forEachSeries([all EXCEPT ![i].columnIndex = column.columnIndex],
                           i + 1, series, ignoreHiddenSeries,
                           column.stackGroups, column.columnCount)
    ELSE IF all[i].grouping
    THEN forEachSeries([all EXCEPT ![i].columnIndex = <<columnCount>>], i + 1,
                       series, ignoreHiddenSeries, stackGroups, columnCount + 1)
    ELSE forEachSeries([all EXCEPT ![i].columnIndex = <<>>], i + 1,
                       series, ignoreHiddenSeries, stackGroups, columnCount)

\* getColumnMetrics called on the caller-th series of the chart: the
\* series afterwards and columnMetrics.columnCount.
getColumnMetrics(all, caller, ignoreHiddenSeries) ==
    IF ~all[caller].grouping
    THEN [series |-> all, columnCount |-> 1]
    ELSE forEachSeries(all, 1, all[caller], ignoreHiddenSeries, << >>, 0)

MaxSeries == 3      \* most series in one chart

\* The series drawn: two stacks, a hidden member of one, plain grouped and
\* ungrouped columns, a column on another axis and a series of another type.
SeriesKinds ==
    { Series("column", TRUE,  [len |-> 300, pos |-> 10], "",       "",  TRUE),
      Series("column", TRUE,  [len |-> 300, pos |-> 10], "",       "",  FALSE),
      Series("column", TRUE,  [len |-> 300, pos |-> 10], "normal", "a", TRUE),
      Series("column", TRUE,  [len |-> 300, pos |-> 10], "normal", "b", TRUE),
      Series("column", FALSE, [len |-> 300, pos |-> 10], "normal", "a", TRUE),
      Series("column", TRUE,  [len |-> 300, pos |-> 10], "group",  "a", TRUE),
      Series("column", TRUE,  [len |-> 100, pos |-> 10], "normal", "a", TRUE),
      Series("line",   TRUE,  [len |-> 300, pos |-> 10], "",       "",  TRUE) }

\* series.getColumnMetrics() on any series of the chart
GetColumnMetrics ==
    /\ \E caller \in 1..Len(chart.series) :
          LET metrics == getColumnMetrics(chart.series, caller,
                                          chart.ignoreHiddenSeries)
          IN  chart' = [chart EXCEPT !.series = metrics.series,
                                     !.columnCount = metrics.columnCount,
                                     !.caller = caller,
                                     !.before = chart.series]
    /\ call' = Snapshot("getColumnMetrics")
    /\ UNCHANGED <<astVars, tracker, pie>>

InitColumns ==
    /\ NoAST
    /\ tracker = <<>>
    /\ pie = <<>>
    /\ \E n \in 1..MaxSeries, ignoreHiddenSeries \in BOOLEAN :
          \E all \in [1..n -> SeriesKinds] :
              chart = [series |-> all, ignoreHiddenSeries |-> ignoreHiddenSeries,
                       columnCount |-> 0, caller |-> 0, before |-> all]

NextColumns == GetColumnMetrics

SpecColumns == InitColumns /\ [][NextColumns]_vars

---------------------------------------------------------------------------
(* Claims about column indices (checked under SpecColumns) *)

\* The positions of the series the last getColumnMetrics call counted.
CountedSeries ==
    {i \in 1..Len(chart.series) :
        Counted(chart.series[chart.caller], chart.series[i],
                chart.ignoreHiddenSeries)}

\* The counted series that were given a column.
Placed == {i \in CountedSeries : chart.series[i].columnIndex # <<>>}

\* C26: after getColumnMetrics on a series with grouping, two counted
\* stacked series have the same columnIndex exactly when they have the same
\* stackKey, a counted unstacked series with grouping has a columnIndex no
\* other counted series has, and the indices given are 0..columnCount-1,
\* each first given to a later series than the one before it; on a series
\* with grouping false columnCount is 1 and no columnIndex changes.
C26_ColumnIndexAssignment ==
    call.op = "getColumnMetrics" =>
        LET all == chart.series
            first(c) == CHOOSE i \in Placed :
                            /\ all[i].columnIndex = <<c>>
                            /\ \A j \in Placed : all[j].columnIndex = <<c>> => i <= j
        IN  IF chart.before[chart.caller].grouping
            THEN /\ \A i, j \in CountedSeries :
                       (Stacked(all[i]) /\ Stacked(all[j])) =>
                           (all[i].columnIndex = all[j].columnIndex
                               <=> all[i].stackKey = all[j].stackKey)
                 /\ \A i \in CountedSeries :
                       (~Stacked(all[i]) /\ all[i].grouping) =>
                           /\ i \in Placed
                           /\ \A j \in CountedSeries \ {i} :
                                 all[j].columnIndex # all[i].columnIndex
                 /\ {all[i].columnIndex[1] : i \in Placed} = 0..(chart.columnCount - 1)
                 /\ \A c, d \in 0..(chart.columnCount - 1) :
                       c < d => first(c) < first(d)
                 /\ \A i \in CountedSeries : Stacked(all[i]) => i \in Placed
            ELSE /\ chart.columnCount = 1
                 /\ chart.series = chart.before

\* Two stacks and a plain column counted in one call, a member of the first
\* stack coming after the second stack.
C26_Witness ==
    /\ call.op = "getColumnMetrics"
    /\ chart.before[chart.caller].grouping
    /\ chart.columnCount = 2
    /\ \E i, j, k \in CountedSeries :
          /\ i < j /\ j < k
          /\ Stacked(chart.series[i]) /\ Stacked(chart.series[k])
          /\ chart.series[i].columnIndex = <<0>>
          /\ chart.series[j].columnIndex = <<1>>
          /\ chart.series[k].columnIndex = <<0>>

---------------------------------------------------------------------------
(* ColumnSeries.drawTracker (PieSeries uses the same function) *)

trackerGroups == {"group", "dataLabelsGroup"}

Events == {"mouseover", "mouseout", "touchstart"}

\* A point object is known by its id: the generation of series.points it
\* belongs to and its place there.  graphic is <<>> or <<reference>>, the reference
\* being what graphic.element.point holds (<<>> when never set); a data
\* label holds its reference on its div when it has one, on its element
\* otherwise.

\* series.points.forEach(...): every graphic and data label refers to the
\* point that owns it.
AddReferences(points) ==
    [i \in 1..Len(points) |->
        [points[i] EXCEPT
            !.graphic = IF points[i].graphic # <<>> THEN <<points[i].id>> ELSE <<>>,
            !.dataLabels = [l \in 1..Len(points[i].dataLabels) |->
                               [points[i].dataLabels[l] EXCEPT !.point = points[i].id]]]]

\* .on('mouseover', ...).on('mouseout', ...) and, with touch,
\* .on('touchstart', ...) on every tracker group that exists
OnEvents(listeners, groups, hasTouch) ==
    [key \in trackerGroups |->
        IF key \in groups
        THEN [event \in Events |->
                 IF event = "touchstart" /\ ~hasTouch
                 THEN listeners[key][event]
                 ELSE listeners[key][event] + 1]
        ELSE listeners[key]]

\* A plausible bug: the listeners are added on every call.
AddListenersEveryCall(t) ==
    [t EXCEPT !.listeners = OnEvents(t.listeners, t.groups, t.hasTouch),
              !._hasTracking = TRUE]

\* if (!series._hasTracking) { ...; series._hasTracking = true; }
AddListeners(t) ==
    IF ~t._hasTracking
    THEN [t EXCEPT !.listeners = OnEvents(t.listeners, t.groups, t.hasTouch),
                   !._hasTracking = TRUE]
    ELSE t

drawTracker(t) ==
    [AddListeners([t EXCEPT !.points = AddReferences(t.points)])
        EXCEPT !.fired = t.fired + 1]

MaxDraws == 3       \* drawTracker calls in one behaviour
MaxPoints == 2      \* most points in one series

PointShapes ==
    {[graphic |-> graphic, dataLabels |-> dataLabels] :
        graphic \in {<<>>, <<<<>>>>},
        dataLabels \in {<<>>,
                        <<[div |-> TRUE, point |-> <<>>]>>,
                        <<[div |-> FALSE, point |-> <<>>]>>,
                        <<[div |-> TRUE, point |-> <<>>],
                          [div |-> FALSE, point |-> <<>>]>>}}

\* series.drawTracker()
DrawTracker ==
    /\ tracker.draws < MaxDraws
    /\ tracker' = [drawTracker(tracker) EXCEPT !.draws = tracker.draws + 1]
    /\ call' = Snapshot("drawTracker")
    /\ UNCHANGED <<astVars, chart, pie>>

\* The series gets new point objects, which take over the graphics and
\* data labels of the old ones (a redraw with new data).
ReplacePoints ==
    /\ tracker.generation <= tracker.draws
    /\ tracker' = [tracker EXCEPT
          !.generation = tracker.generation + 1,
          !.points = [i \in 1..Len(tracker.points) |->
                         [tracker.points[i] EXCEPT
                             !.id = <<tracker.generation + 1, i>>]]]
    /\ call' = Snapshot("new points")
    /\ UNCHANGED <<astVars, chart, pie>>

\* The data labels are drawn for the first time: series.dataLabelsGroup
\* comes into being.
AddDataLabelsGroup ==
    /\ "dataLabelsGroup" \notin tracker.groups
    /\ tracker' = [tracker EXCEPT !.groups = tracker.groups \cup {"dataLabelsGroup"}]
    /\ call' = Snapshot("new dataLabelsGroup")
    /\ UNCHANGED <<astVars, chart, pie>>

InitTracker ==
    /\ NoAST
    /\ chart = <<>>
    /\ pie = <<>>
    /\ \E hasTouch \in BOOLEAN, groups \in SUBSET trackerGroups,
          n \in 1..MaxPoints :
          \E shapes \in [1..n -> PointShapes] :
              tracker = [_hasTracking |-> FALSE,
                         hasTouch |-> hasTouch,
                         groups |-> groups,
                         listeners |-> [key \in trackerGroups |->
                                          [event \in Events |-> 0]],
                         generation |-> 1,
                         points |-> [i \in 1..n |->
                                        [id |-> <<1, i>>,
                                         graphic |-> shapes[i].graphic,
                                         dataLabels |-> shapes[i].dataLabels]],
                         fired |-> 0,
                         draws |-> 0]

NextTracker ==
    \/ DrawTracker
    \/ ReplacePoints
    \/ AddDataLabelsGroup

SpecTracker == InitTracker /\ [][NextTracker]_vars

---------------------------------------------------------------------------
(* Claims about the tracker (checked under SpecTracker) *)

\* Every graphic and every data label refers to the current point object.
ReferencesCurrent ==
    \A i \in 1..Len(tracker.points) :
        LET point == tracker.points[i]
        IN  /\ point.graphic # <<>> => point.graphic = <<point.id>>
            /\ \A l \in 1..Len(point.dataLabels) :
                  point.dataLabels[l].point = point.id

\* C27: however often drawTracker is called on a series, each tracker group
\* has at most one mouseover, one mouseout and (only with touch) one
\* touchstart listener, none is added once _hasTracking is set, and every
\* call rewrites the point references and fires 'afterDrawTracker'.
C27_ListenersOnceReferencesEveryCall ==
    /\ \A key \in trackerGroups, event \in Events :
          /\ tracker.listeners[key][event] <= 1
          /\ tracker.listeners[key][event] = 1 =>
                (tracker._hasTracking /\ key \in tracker.groups)
    /\ \A key \in trackerGroups :
          tracker.listeners[key]["touchstart"] = 1 => tracker.hasTouch
    /\ tracker.fired = tracker.draws
    /\ call.op = "drawTracker" =>
          /\ tracker._hasTracking
          /\ ReferencesCurrent
          /\ \A key \in tracker.groups \cap {"group"} :
                \A event \in Events :
                    tracker.listeners[key][event] =
                        IF event = "touchstart" /\ ~tracker.hasTouch THEN 0 ELSE 1

\* A third call, on points that were replaced since the call before, with
\* touch: still one listener of each kind on the series group.
C27_Witness ==
    /\ call.op = "drawTracker"
    /\ tracker.draws = 3
    /\ tracker.generation = 3
    /\ tracker.hasTouch
    /\ tracker.listeners["group"]["touchstart"] = 1
    /\ tracker.listeners["group"]["mouseover"] = 1
    /\ Len(tracker.points) = 2
    /\ tracker.points[2].graphic = <<<<3, 2>>>>

---------------------------------------------------------------------------
(* Numbers *)

\* The code computes in IEEE 754 binary floating point: 53 significant
\* bits, every result rounded to the nearest number, ties to even.  The
\* model keeps that arithmetic and shortens the significand to
\* SignificandBits bits: a number is m * 2^e with 2^(SignificandBits-1) <=
\* |m| < 2^SignificandBits, or m = 0 and e = 0.  Integers below
\* 2^SignificandBits are exact, as the integers of the code are in 53
\* bits.  No intermediate value of the operators below reaches 2^31.
SignificandBits == 24

RECURSIVE BitLength(_)
BitLength(n) == IF n = 0 THEN 0 ELSE 1 + BitLength(n \div 2)

\* The number nearest to n * 2^e.
Nearest(n, e) ==
    LET a == IF n < 0 THEN -n ELSE n
        sign == IF n < 0 THEN -1 ELSE 1
        s == BitLength(a) - SignificandBits
        q == a \div 2^s
        r == a % 2^s
        up == r * 2 > 2^s \/ (r * 2 = 2^s /\ q % 2 = 1)
        rounded == IF up THEN q + 1 ELSE q
    IN  IF a = 0 THEN [m |-> 0, e |-> 0]
        ELSE IF s <= 0 THEN [m |-> sign * a * 2^(-s), e |-> e + s]
        ELSE IF rounded = 2^SignificandBits
        THEN [m |-> sign * 2^(SignificandBits - 1), e |-> e + s + 1]
        ELSE [m |-> sign * rounded, e |-> e + s]

\* An integer literal or integer value of the code.
Number(n) == Nearest(n, 0)

\* x + y.  When the exponents are more than three apart the smaller number
\* is cut to three bits below the larger, with one more bit that says
\* whether anything was cut off.
Plus(x, y) ==
    IF x.m = 0 THEN y
    ELSE IF y.m = 0 THEN x
    ELSE LET hi == IF x.e >= y.e THEN x ELSE y
             lo == IF x.e >= y.e THEN y ELSE x
             gap == hi.e - lo.e
             small == IF lo.m < 0 THEN -lo.m ELSE lo.m
             sign == IF lo.m < 0 THEN -1 ELSE 1
             kept == IF gap - 3 > SignificandBits THEN 0 ELSE small \div 2^(gap - 3)
             sticky == IF gap - 3 > SignificandBits \/ small % 2^(gap - 3) # 0
                       THEN 1 ELSE 0
         IN  IF gap <= 3 THEN Nearest(hi.m * 2^gap + lo.m, lo.e)
             ELSE Nearest(hi.m * 16 + sign * (2 * kept + sticky), hi.e - 4)

\* x - y
Minus(x, y) == Plus(x, [y EXCEPT !.m = -y.m])

\* x * y: the product of the significands from their halves, cut to its
\* leading bits, with one more bit that says whether anything was cut off.
Times(x, y) ==
    LET a == IF x.m < 0 THEN -x.m ELSE x.m
        b == IF y.m < 0 THEN -y.m ELSE y.m
        sign == IF (x.m < 0) = (y.m < 0) THEN 1 ELSE -1
        half == 2^(SignificandBits \div 2)
        whole == 2^SignificandBits
        middle == (a \div half) * (b % half) + (a % half) * (b \div half)
        low == (middle % half) * half + (a % half) * (b % half)
        high == (a \div half) * (b \div half) + middle \div half + low \div whole
        rest == low % whole
        sticky == IF rest % (whole \div 8) = 0 THEN 0 ELSE 1
    IN  Nearest(sign * (high * 16 + (rest \div (whole \div 8)) * 2 + sticky),
                x.e + y.e + SignificandBits - 4)

\* Long division: five more bits of the quotient at each step.
RECURSIVE Divide(_, _, _, _)
Divide(q, r, b, steps) ==
    IF steps = 0 THEN [q |-> q, r |-> r]
    ELSE Divide(q * 32 + (r * 32) \div b, (r * 32) % b, b, steps - 1)

\* x / y, y not 0: the quotient of the significands to SignificandBits + 1
\* bits at least, and a bit that says whether anything was left.
Over(x, y) ==
    LET a == IF x.m < 0 THEN -x.m ELSE x.m
        b == IF y.m < 0 THEN -y.m ELSE y.m
        sign == IF (x.m < 0) = (y.m < 0) THEN 1 ELSE -1
        steps == (SignificandBits + 1) \div 5
        d == Divide(a \div b, a % b, b, steps)
        sticky == IF d.r = 0 THEN 0 ELSE 1
    IN  Nearest(sign * (2 * d.q + sticky), x.e - y.e - 5 * steps - 1)

\* Math.round(x): the integer floor(x + 0.5), computed exactly.
MathRound(x) ==
    IF x.e >= 0 THEN x.m * 2^(x.e)
    ELSE IF -x.e > SignificandBits + 2 THEN 0
    ELSE (2 * x.m + 2^(-x.e)) \div 2^(1 - x.e)

---------------------------------------------------------------------------
(* PieSeries.updateTotals and PieSeries.translate *)

\* A point holds y as an integer, isNumber telling whether y is a number
\* at all (a null y counts as 0 in arithmetic), and visible.

\* PiePoint.isValid
isValid(point) == point.isNumber /\ point.y >= 0

\* The test both loops make before they count a point.
InTotal(point, ignoreHiddenPoint) ==
    isValid(point) /\ (~ignoreHiddenPoint \/ point.visible)

\* for (i = 0; i < len; i++) { ... total += point.y; }, up to point i
RECURSIVE TotalOf(_, _, _)
TotalOf(points, ignoreHiddenPoint, i) ==
    IF i = 0 THEN Number(0)
    ELSE IF InTotal(points[i], ignoreHiddenPoint)
    THEN Plus(TotalOf(points, ignoreHiddenPoint, i - 1), Number(points[i].y))
    ELSE TotalOf(points, ignoreHiddenPoint, i - 1)

\* A plausible bug: the percentage is taken of the number of points.
PercentageOfCount(point, total, ignoreHiddenPoint) ==
    IF total.m > 0 /\ (point.visible \/ ~ignoreHiddenPoint)
    THEN Times(Over(Number(1), total), Number(100))
    ELSE Number(0)

\* point.percentage = (total > 0 && (point.visible || !ignoreHiddenPoint)) ?
\*     point.y / total * 100 : 0
Percentage(point, total, ignoreHiddenPoint) ==
    IF total.m > 0 /\ (point.visible \/ ~ignoreHiddenPoint)
    THEN Times(Over(Number(point.y), total), Number(100))
    ELSE Number(0)

updateTotals(series) ==
    LET ignoreHiddenPoint == series.options.ignoreHiddenPoint
        total == TotalOf(series.points, ignoreHiddenPoint, Len(series.points))
    IN  [series EXCEPT
            !.total = total,
            !.points = [i \in 1..Len(series.points) |->
                           [series.points[i] EXCEPT
                               !.percentage = Percentage(series.points[i], total,
                                                         ignoreHiddenPoint),
                               !.total = total]]]

\* CenteredSeriesMixin.getStartAndEndRadians: an angle option is <<>> when
\* not given; the end defaults to the start plus 360.  deg2rad is
\* Math.PI * 2 / 360, with Math.PI the number nearest to 355/113.
getStartAndEndRadians(start, end) ==
    LET deg2rad == Over(Times(Over(Number(355), Number(113)), Number(2)),
                        Number(360))
        startAngle == IF start # <<>> THEN start[1] ELSE 0
        endAngle == IF end # <<>> /\ end[1] > startAngle /\ end[1] - startAngle < 360
                    THEN end[1]
                    ELSE startAngle + 360
    IN  [start |-> Times(deg2rad, Number(startAngle - 90)),
         end   |-> Times(deg2rad, Number(endAngle - 90))]

precision == 1000

\* Math.round(angle * precision) / precision
RoundAngle(angle) ==
    Over(Number(MathRound(Times(angle, Number(precision)))), Number(precision))

\* cumulative after the loop has passed point i
RECURSIVE Cumulative(_, _, _)
Cumulative(points, ignoreHiddenPoint, i) ==
    IF i = 0 THEN Number(0)
    ELSE IF InTotal(points[i], ignoreHiddenPoint)
    THEN Plus(Cumulative(points, ignoreHiddenPoint, i - 1),
              Over(points[i].percentage, Number(100)))
    ELSE Cumulative(points, ignoreHiddenPoint, i - 1)

\* translate: generatePoints (which ends in updateTotals), the radians of
\* the arc, then start and end of every point's shapeArgs.
translate(series) ==
    LET generated == updateTotals(series)
        radians == getStartAndEndRadians(series.options.startAngle,
                                         series.options.endAngle)
        circ == Minus(radians.end, radians.start)
        ignoreHiddenPoint == series.options.ignoreHiddenPoint
        angle(i) == Plus(radians.start,
                         Times(Cumulative(generated.points, ignoreHiddenPoint, i),
                               circ))
    IN  [generated EXCEPT
            !.startAngleRad = radians.start,
            !.endAngleRad = radians.end,
            !.points = [i \in 1..Len(generated.points) |->
                           [generated.points[i] EXCEPT
                               !.shapeArgs = [start |-> RoundAngle(angle(i - 1)),
                                              end   |-> RoundAngle(angle(i))]]]]

\* The points drawn: y a small number, a negative number or null, the
\* point visible or hidden.
PointKinds ==
    {[y |-> y, isNumber |-> TRUE, visible |-> visible] :
        y \in -1..2, visible \in BOOLEAN}
    \cup {[y |-> 0, isNumber |-> FALSE, visible |-> TRUE]}

\* The arcs drawn: the full circle from the top, one degree from a quarter
\* turn on, and 272 degrees from the top.
Arcs ==
    {[startAngle |-> <<>>, endAngle |-> <<>>],
     [startAngle |-> <<90>>, endAngle |-> <<91>>],
     [startAngle |-> <<>>, endAngle |-> <<272>>]}

\* series.updateTotals()
UpdateTotals ==
    /\ pie' = updateTotals(pie)
    /\ call' = Snapshot("updateTotals")
    /\ UNCHANGED <<astVars, chart, tracker>>

\* series.translate()
Translate ==
    /\ pie' = translate(pie)
    /\ call' = Snapshot("translate")
    /\ UNCHANGED <<astVars, chart, tracker>>

\* A point is hidden or shown (a click on its legend item).
SetVisible ==
    /\ \E i \in 1..Len(pie.points) :
          pie' = [pie EXCEPT !.points[i].visible = ~pie.points[i].visible]
    /\ call' = Snapshot("setVisible")
    /\ UNCHANGED <<astVars, chart, tracker>>

InitPie ==
    /\ NoAST
    /\ chart = <<>>
    /\ tracker = <<>>
    /\ \E ignoreHiddenPoint \in BOOLEAN, arc \in Arcs, n \in 0..MaxPoints :
          \E kinds \in [1..n -> PointKinds] :
              pie = [options |-> [ignoreHiddenPoint |-> ignoreHiddenPoint,
                                  startAngle |-> arc.startAngle,
                                  endAngle |-> arc.endAngle],
                     points |-> [i \in 1..n |->
                                    [y |-> kinds[i].y,
                                     isNumber |-> kinds[i].isNumber,
                                     visible |-> kinds[i].visible,
                                     percentage |-> Number(0),
                                     total |-> Number(0),
                                     shapeArgs |-> [start |-> Number(0),
                                                    end |-> Number(0)]]],
                     total |-> Number(0),
                     startAngleRad |-> Number(0),
                     endAngleRad |-> Number(0)]

NextPie ==
    \/ UpdateTotals
    \/ Translate
    \/ SetVisible

SpecPie == InitPie /\ [][NextPie]_vars

---------------------------------------------------------------------------
(* Claims about the pie (checked under SpecPie) *)

\* The positions of the points that count: valid, and visible unless
\* hidden points are not ignored.
CountedPoints ==
    {i \in 1..Len(pie.points) : InTotal(pie.points[i], pie.options.ignoreHiddenPoint)}

\* The sum of y over the counted points among the first i, as an integer.
RECURSIVE SumOfY(_)
SumOfY(i) ==
    IF i = 0 THEN 0
    ELSE SumOfY(i - 1) + (IF i \in CountedPoints THEN pie.points[i].y ELSE 0)

\* The exact sum of the percentages of the counted points among the first
\* i, in units of 2^unit.
RECURSIVE SumOfPercentages(_, _)
SumOfPercentages(i, unit) ==
    IF i = 0 THEN 0
    ELSE SumOfPercentages(i - 1, unit) +
         (IF i \in CountedPoints
          THEN pie.points[i].percentage.m * 2^(pie.points[i].percentage.e - unit)
          ELSE 0)

\* The smallest exponent among the percentages.
PercentageUnit ==
    LET exponents == {pie.points[i].percentage.e : i \in 1..Len(pie.points)}
    IN  CHOOSE e \in exponents : \A f \in exponents : e <= f

\* C28: after updateTotals, series.total and every point.total are the sum
\* of y over the counted points; when the total is greater than 0 the
\* percentages of the counted points add up to 100, exactly; when it is 0
\* every percentage is 0.
C28_TotalsAndPercentages ==
    call.op = "updateTotals" =>
        /\ pie.total = Number(SumOfY(Len(pie.points)))
        /\ \A i \in 1..Len(pie.points) : pie.points[i].total = pie.total
        /\ pie.total.m > 0 =>
              SumOfPercentages(Len(pie.points), PercentageUnit) =
                  100 * 2^(-PercentageUnit)
        /\ pie.total.m = 0 =>
              \A i \in 1..Len(pie.points) : pie.points[i].percentage = Number(0)

\* The sum of the percentages of the counted points, less 100, in units of
\* the last place of 100.
RoundingError ==
    LET unit == PercentageUnit
        excess == SumOfPercentages(Len(pie.points), unit) - 100 * 2^(-unit)
    IN  [excess |-> excess, last |-> 2^(7 - SignificandBits - unit)]

\* C28, amended: after updateTotals, series.total and every point.total are
\* the sum of y over the counted points; when the total is greater than 0
\* the percentages of the counted points add up to 100 to within one unit
\* in the last place of 100 for each point; when it is 0 every percentage
\* is 0.
C28_TotalsAndRoundedPercentages ==
    call.op = "updateTotals" =>
        /\ pie.total = Number(SumOfY(Len(pie.points)))
        /\ \A i \in 1..Len(pie.points) : pie.points[i].total = pie.total
        /\ pie.total.m > 0 =>
              /\ RoundingError.excess <= Len(pie.points) * RoundingError.last
              /\ -RoundingError.excess <= Len(pie.points) * RoundingError.last
        /\ pie.total.m = 0 =>
              \A i \in 1..Len(pie.points) : pie.points[i].percentage = Number(0)

\* Percentages of a total greater than 0 that do not add up to 100
\* exactly.
C28_Witness ==
    /\ call.op = "updateTotals"
    /\ pie.total.m > 0
    /\ RoundingError.excess # 0

\* C29: after updateTotals, a point whose percentage is not 0 was counted
\* into the total.
C29_PercentageOnlyIfCounted ==
    call.op = "updateTotals" =>
        \A i \in 1..Len(pie.points) :
            pie.points[i].percentage # Number(0) => i \in CountedPoints

====
